---- MODULE Spec2Model ----
(***************************************************************************)
(* A model of the virtual-filesystem bridge of local-note-taker:           *)
(*   - the useFileSystem hook (folder registry, tree builder, resolver),   *)
(*   - the file-system tools (readFile, writeFile, editFile, globFiles,    *)
(*     grepFiles),                                                         *)
(*   - the file-system change emitter.                                     *)
(* Strings whose characters matter are tuples of one-character strings.    *)
(***************************************************************************)
EXTENDS Integers, Sequences, FiniteSets, TLC

VARIABLES
    trackedFolders, \* useState<TrackedFolder[]> of the hook
    loading,        \* useState(true)
    error,          \* useState<string | null>
    metadata,       \* localStorage["tracked-folders-metadata"], parsed
    idb,            \* IndexedDB store "folder-handles": id -> handle
    calls,          \* addFolder / removeFolder invocations in flight
    load,           \* the loadFolders effect started on mount
    now,            \* the millisecond clock read by Date.now()
    removed,        \* history: folders whose removeFolder has completed
    disk,           \* the directories and files behind the handles
    result,         \* history: the last tree / resolver / tool call and its value
    listeners,      \* the event listener list of the fileSystemEvents singleton
    dispatch,       \* the dispatchEvent call of an emitChange in progress
    widget          \* the state of the mounted FileTreeNodeComponent instances

vars == <<trackedFolders, loading, error, metadata, idb, calls, load, now,
          removed, disk, result, listeners, dispatch, widget>>

(***************************************************************************)
(* Bounds of the model.                                                    *)
(***************************************************************************)
MaxClock == 2
NumSuffix == 2
MaxCalls == 2

(***************************************************************************)
(* Characters and strings.                                                 *)
(***************************************************************************)
\* UTF-16 code unit of a character
Code(c) ==
    CASE c = "\n" -> 10
      [] c = " " -> 32
      [] c = "." -> 46
      [] c = "/" -> 47
      [] c = "A" -> 65
      [] c = "B" -> 66
      [] c = "F" -> 70
      [] c = "O" -> 79
      [] c = "a" -> 97
      [] c = "b" -> 98
      [] c = "c" -> 99
      [] c = "d" -> 100
      [] c = "f" -> 102
      [] c = "o" -> 111
      [] c = "r" -> 114
      [] c = "s" -> 115
      [] c = "t" -> 116
      [] c = "x" -> 120
      [] c = "z" -> 122
      [] OTHER -> 0

Min(a, b) == IF a < b THEN a ELSE b
Max(a, b) == IF a > b THEN a ELSE b

Range(s) == {s[i] : i \in DOMAIN s}

\* Array.prototype.filter
RECURSIVE SelectSeqR(_, _)
SelectSeqR(s, keep) ==
    IF s = <<>> THEN <<>>
    ELSE (IF Head(s) \in keep THEN <<Head(s)>> ELSE <<>>) \o SelectSeqR(Tail(s), keep)

(***************************************************************************)
(* The platform's file system: every node is a FileSystemHandle.  A node   *)
(* of kind "none" does not exist; a root (a directory the picker can       *)
(* return) has parent NoHandle.                                            *)
(***************************************************************************)
\* null where a handle is expected
NoHandle == 0

\* no FileTreeNodeComponent is mounted
NoWidget == <<>>

\* no dispatchEvent call is in progress
NoDispatch == [active |-> FALSE]

Entry(kind, name, parent, content) ==
    [kind |-> kind, name |-> name, parent |-> parent, content |-> content]

NoEntry == Entry("none", <<>>, NoHandle, <<>>)

Exists(d, n) == n \in DOMAIN d /\ d[n].kind # "none"

\* the entries FileSystemDirectoryHandle.values() yields, in some order
Children(d, dir) == {n \in DOMAIN d : Exists(d, n) /\ d[n].parent = dir}

Roots(d) == {n \in DOMAIN d : d[n].kind = "directory" /\ d[n].parent = NoHandle}

ChildNamed(d, dir, name, kind) ==
    {n \in Children(d, dir) : d[n].name = name /\ d[n].kind = kind}

\* FileSystemDirectoryHandle.getDirectoryHandle(name): NoHandle when it throws
GetDirectoryHandle(d, dir, name) ==
    IF ChildNamed(d, dir, name, "directory") # {}
    THEN CHOOSE n \in ChildNamed(d, dir, name, "directory") : TRUE
    ELSE NoHandle

\* FileSystemDirectoryHandle.getFileHandle(name): NoHandle when it throws
GetFileHandle(d, dir, name) ==
    IF ChildNamed(d, dir, name, "file") # {}
    THEN CHOOSE n \in ChildNamed(d, dir, name, "file") : TRUE
    ELSE NoHandle

\* every order in which values() may enumerate a set of entries
Orders(S) ==
    {o \in [1..Cardinality(S) -> S] : \A i, j \in 1..Cardinality(S) : i # j => o[i] # o[j]}

(***************************************************************************)
(* Virtual paths.                                                          *)
(***************************************************************************)
RECURSIVE SplitAcc(_, _, _)
SplitAcc(s, cur, acc) ==
    IF s = <<>> THEN (IF cur = <<>> THEN acc ELSE Append(acc, cur))
    ELSE IF Head(s) = "/"
         THEN SplitAcc(Tail(s), <<>>, IF cur = <<>> THEN acc ELSE Append(acc, cur))
         ELSE SplitAcc(Tail(s), Append(cur, Head(s)), acc)

\* path.split("/").filter(Boolean)
SplitPath(path) == SplitAcc(path, <<>>, <<>>)

\* `${basePath}/${name}`
JoinPath(basePath, name) == basePath \o <<"/">> \o name

\* trackedFolders.find((f) => f.name === folderName): its index, 0 when undefined
FindByName(folders, name) ==
    IF \E i \in DOMAIN folders : folders[i].name = name
    THEN CHOOSE i \in DOMAIN folders :
            /\ folders[i].name = name
            /\ \A j \in DOMAIN folders : folders[j].name = name => i <= j
    ELSE 0

\* trackedFolders.find((f) => f.id === folderId)
FindById(folders, id) ==
    IF \E i \in DOMAIN folders : folders[i].id = id
    THEN CHOOSE i \in DOMAIN folders :
            /\ folders[i].id = id
            /\ \A j \in DOMAIN folders : folders[j].id = id => i <= j
    ELSE 0

WalkNowhere(d, current, parts, i) == current

\* the loop of getHandleFromPath from index i on; NoHandle when a lookup throws
RECURSIVE WalkHandle(_, _, _, _)
WalkHandle(d, current, parts, i) ==
    IF i > Len(parts) THEN current
    ELSE IF d[current].kind # "directory" THEN WalkHandle(d, current, parts, i + 1)
    ELSE LET asDir == GetDirectoryHandle(d, current, parts[i]) IN
         IF asDir # NoHandle THEN WalkHandle(d, asDir, parts, i + 1)
         ELSE IF i = Len(parts) THEN GetFileHandle(d, current, parts[i])
         ELSE NoHandle

\* getHandleFromPath: the handle (NoHandle for null) and whether setError ran
GetHandleFromPath(folders, d, path) ==
    LET parts == SplitPath(path)
        fi == IF parts = <<>> THEN 0 ELSE FindByName(folders, parts[1])
    IN  IF parts = <<>> \/ fi = 0 THEN [handle |-> NoHandle, failed |-> FALSE]
        ELSE LET h == WalkHandle(d, folders[fi].handle, parts, 2) IN
             [handle |-> h, failed |-> h = NoHandle]

\* IndexedDB: store.put(handle, id), store.get(id) || null, store.delete(id)
IdbPut(db, id, handle) == [db EXCEPT ![id] = handle]
IdbGet(db, id) == IF id \in DOMAIN db THEN db[id] ELSE NoHandle
IdbDelete(db, id) == IF id \in DOMAIN db THEN [db EXCEPT ![id] = NoHandle] ELSE db

(***************************************************************************)
(* The tools' own view of the tracked folders (file-system-tools.ts).      *)
(***************************************************************************)
RECURSIVE TrackedFrom(_, _)
TrackedFrom(items, db) ==
    IF items = <<>> THEN <<>>
    ELSE LET meta == Head(items)
             handle == IdbGet(db, meta.id)
         IN  (IF handle # NoHandle
              THEN <<[id |-> meta.id, name |-> meta.name, handle |-> handle]>>
              ELSE <<>>) \o TrackedFrom(Tail(items), db)

\* getTrackedFolders(): the metadata records whose handle IndexedDB holds
GetTrackedFolders(meta, db) ==
    IF ~meta.present THEN <<>> ELSE TrackedFrom(meta.items, db)

\* relativePath[relativePath.length - 1] of an empty array, as a name
UndefinedName == <<"undefined">>

\* the directory reached from dir through the first n parts; NoHandle when
\* getDirectoryHandle throws on the way
RECURSIVE WalkDirs(_, _, _, _)
WalkDirs(d, dir, parts, n) ==
    IF n = 0 THEN dir
    ELSE LET parent == WalkDirs(d, dir, parts, n - 1) IN
         IF parent = NoHandle THEN NoHandle
         ELSE GetDirectoryHandle(d, parent, parts[n])

\* getFileHandle(path) of the tools: it throws ("invalid", "nofolder") or
\* returns a file handle or null ("ok", with NoHandle for null)
ToolGetFileHandle(meta, db, d, path) ==
    LET folders == GetTrackedFolders(meta, db)
        parts == SplitPath(path)
        fi == IF parts = <<>> THEN 0 ELSE FindByName(folders, parts[1])
        rel == Tail(parts)
        dir == WalkDirs(d, folders[fi].handle, rel, Max(Len(rel) - 1, 0))
        fileName == IF rel = <<>> THEN UndefinedName ELSE rel[Len(rel)]
    IN  IF parts = <<>> THEN [status |-> "invalid", handle |-> NoHandle]
        ELSE IF fi = 0 THEN [status |-> "nofolder", handle |-> NoHandle]
        ELSE [status |-> "ok",
              handle |-> IF dir = NoHandle THEN NoHandle ELSE GetFileHandle(d, dir, fileName)]

(***************************************************************************)
(* The registry: useFileSystem's state, loadFolders, addFolder and         *)
(* removeFolder.                                                           *)
(***************************************************************************)
NoError == "null"
NoId == <<0 - 1, 0>>
\* localStorage.getItem(METADATA_KEY) === null
NoMetadata == [present |-> FALSE, items |-> <<>>]

\* two past sessions' times, then this session's
Times == (0 - 1)..MaxClock
Suffixes == 1..NumSuffix
Ids == Times \X Suffixes

\* `folder-${Date.now()}-${Math.random().toString(36).substring(2, 9)}`
FolderId(t, r) == <<t, r>>

\* saveMetadata's projection of a TrackedFolder
MetaOf(f) == [id |-> f.id, name |-> f.name, addedAt |-> f.addedAt]

\* what saveMetadata(folders) leaves under METADATA_KEY
ProjectMetadata(folders) ==
    [present |-> TRUE, items |-> [i \in DOMAIN folders |-> MetaOf(folders[i])]]

IdleCall == [op |-> "idle", pc |-> "idle", snap |-> <<>>, id |-> NoId, handle |-> NoHandle]

\* the k-th call of addFolder or removeFolder
Slots == 1..MaxCalls

DoneCall == [op |-> "done", pc |-> "done", snap |-> <<>>, id |-> NoId, handle |-> NoHandle]

\* the directories a directory picker can return here: "a" and "b", each
\* holding a file "x"
RegDisk ==
    <<Entry("directory", <<"a">>, NoHandle, <<>>),
      Entry("directory", <<"b">>, NoHandle, <<>>),
      Entry("file", <<"x">>, 1, <<>>),
      Entry("file", <<"x">>, 2, <<>>)>>

\* the folder added k sessions ago: directory k, at time 1 - k
PastFolder(k) == [id |-> FolderId(1 - k, 1), name |-> RegDisk[k].name, addedAt |-> 1 - k]

EmptyIdb == [id \in Ids |-> NoHandle]

\* what an earlier session can have left in localStorage and IndexedDB:
\* nothing, one folder, two folders, two folders of which the first has lost
\* its capability
PersistedStores ==
    {[metadata |-> NoMetadata, idb |-> EmptyIdb],
     [metadata |-> [present |-> TRUE, items |-> <<PastFolder(1)>>],
      idb |-> IdbPut(EmptyIdb, PastFolder(1).id, 1)],
     [metadata |-> [present |-> TRUE, items |-> <<PastFolder(1), PastFolder(2)>>],
      idb |-> IdbPut(IdbPut(EmptyIdb, PastFolder(1).id, 1), PastFolder(2).id, 2)],
     [metadata |-> [present |-> TRUE, items |-> <<PastFolder(1), PastFolder(2)>>],
      idb |-> IdbPut(EmptyIdb, PastFolder(2).id, 2)]}

NoResult == [op |-> "none"]

LoadRecord(pc, meta) ==
    [pc |-> pc, meta |-> meta, i |-> 1, folders |-> <<>>, handle |-> NoHandle, log |-> <<>>]

\* loadFolders up to its first await, run by the effect as the hook mounts:
\* no metadata, an empty array, or the first getFolderHandle pending
LoadStarted(meta) ==
    IF ~meta.present \/ meta.items = <<>> THEN LoadRecord("done", meta.items)
    ELSE LoadRecord("get", meta.items)

Init ==
    /\ \E st \in PersistedStores :
          /\ metadata = st.metadata
          /\ idb = st.idb
          /\ load = LoadStarted(st.metadata)
    /\ trackedFolders = <<>>
    /\ loading = (load.pc # "done")
    /\ error = NoError
    /\ calls = [s \in Slots |-> IdleCall]
    /\ now = 1
    /\ removed = {}
    /\ listeners = <<>>
    /\ dispatch = NoDispatch
    /\ widget = NoWidget
    /\ disk = RegDisk
    /\ result = NoResult

(* loadFolders *)

\* the permission-query member of a stored handle: none ("absent"), the
\* platform's method, which needs its handle as receiver ("method"), or a
\* function that needs no receiver ("function")
QueryKinds == {"absent", "method", "function"}

\* the permission state of a handle, which its query reports
PermissionStates == {"granted", "denied", "prompt"}

\* how the promise of a receiver-free query settles
QueryOutcomes == PermissionStates \cup {"undefined", "rejected"}

LogEntry(cap, kind, answer) == [cap |-> cap, kind |-> kind, answer |-> answer]

\* `const queryPermission = handle.queryPermission;
\*  await queryPermission({ mode: "readwrite" })`: what the call hands to the
\* code.  Called without its receiver the platform's method throws a
\* TypeError, whatever the permission state is.
Permission(entry) ==
    IF entry.kind = "absent" THEN "unavailable"
    ELSE IF entry.kind = "method" THEN "rejected"
    ELSE entry.answer

\* `if (permission && permission !== "granted") continue;` inside try/catch
Dropped(permission) == permission \in {"denied", "prompt"}

LoadPush(ld, handle, entry) ==
    LET meta == ld.meta[ld.i] IN
    [ld EXCEPT
        !.folders = IF Dropped(Permission(entry)) THEN @
                    ELSE Append(@, [id |-> meta.id, name |-> meta.name,
                                    handle |-> handle, addedAt |-> meta.addedAt]),
        !.log = Append(@, entry),
        !.i = @ + 1]

\* the rest of the loop up to the next await, or to the end of loadFolders
LoadContinue(ld) ==
    IF ld.i > Len(ld.meta)
    THEN /\ trackedFolders' = ld.folders
         /\ loading' = FALSE
         /\ load' = [ld EXCEPT !.pc = "done"]
    ELSE /\ load' = [ld EXCEPT !.pc = "get"]
         /\ UNCHANGED <<trackedFolders, loading>>

\* getFolderHandle(meta.id) resolves
LoadGet ==
    /\ load.pc = "get"
    /\ LET handle == IdbGet(idb, load.meta[load.i].id) IN
       IF handle = NoHandle
       THEN LoadContinue([load EXCEPT !.log = Append(@, LogEntry(FALSE, "absent", "none")),
                                      !.i = @ + 1])
       ELSE \/ LoadContinue(LoadPush(load, handle, LogEntry(TRUE, "absent", "none")))
            \/ \E state \in PermissionStates :
                  LoadContinue(LoadPush(load, handle, LogEntry(TRUE, "method", state)))
            \/ /\ load' = [load EXCEPT !.pc = "query", !.handle = handle]
               /\ UNCHANGED <<trackedFolders, loading>>
    /\ UNCHANGED <<error, metadata, idb, calls, now, widget, listeners, dispatch, removed, disk, result>>

\* getFolderHandle(meta.id) rejects: the outer catch of loadFolders
LoadGetFail ==
    /\ load.pc = "get"
    /\ error' = "Failed to load folders"
    /\ loading' = FALSE
    /\ load' = [load EXCEPT !.pc = "failed"]
    /\ UNCHANGED <<trackedFolders, metadata, idb, calls, now, widget, listeners, dispatch, removed, disk, result>>

\* the promise of a receiver-free queryPermission settles
LoadQuery ==
    /\ load.pc = "query"
    /\ \E outcome \in QueryOutcomes :
          LoadContinue(LoadPush(load, load.handle, LogEntry(TRUE, "function", outcome)))
    /\ UNCHANGED <<error, metadata, idb, calls, now, widget, listeners, dispatch, removed, disk, result>>

(* addFolder *)

Call(op, pc, snap, id, handle) ==
    [op |-> op, pc |-> pc, snap |-> snap, id |-> id, handle |-> handle]

\* addFolder is called: the callback closes over the trackedFolders it was
\* rendered with, and awaits window.showDirectoryPicker
AddStart(s) ==
    /\ calls[s].op = "idle"
    /\ \A q \in Slots : q < s => calls[q].op # "idle"
    /\ calls' = [calls EXCEPT ![s] = Call("add", "picking", trackedFolders, NoId, NoHandle)]
    /\ UNCHANGED <<trackedFolders, loading, error, metadata, idb, load, now, widget, listeners, dispatch,
                   removed, disk, result>>

\* !("showDirectoryPicker" in window)
AddUnsupported(s) ==
    /\ calls[s].op = "idle"
    /\ \A q \in Slots : q < s => calls[q].op # "idle"
    /\ calls' = [calls EXCEPT ![s] = DoneCall]
    /\ error' = "File System Access API is not supported in this browser"
    /\ UNCHANGED <<trackedFolders, loading, metadata, idb, load, now, widget, listeners, dispatch,
                   removed, disk, result>>

\* the picker rejects with an AbortError
AddAbort(s) ==
    /\ calls[s].op = "add" /\ calls[s].pc = "picking"
    /\ calls' = [calls EXCEPT ![s] = DoneCall]
    /\ UNCHANGED <<trackedFolders, loading, error, metadata, idb, load, now, widget, listeners, dispatch,
                   removed, disk, result>>

\* the picker rejects with another error
AddPickerFail(s) ==
    /\ calls[s].op = "add" /\ calls[s].pc = "picking"
    /\ calls' = [calls EXCEPT ![s] = DoneCall]
    /\ error' = "Failed to add folder"
    /\ UNCHANGED <<trackedFolders, loading, metadata, idb, load, now, widget, listeners, dispatch,
                   removed, disk, result>>

\* the picker resolves with a handle: the id is generated and
\* saveFolderHandle(id, handle) is awaited
AddPicked(s) ==
    /\ calls[s].op = "add" /\ calls[s].pc = "picking"
    /\ \E handle \in Roots(disk), r \in Suffixes :
          calls' = [calls EXCEPT ![s] = Call("add", "saving", @.snap, FolderId(now, r), handle)]
    /\ UNCHANGED <<trackedFolders, loading, error, metadata, idb, load, now, widget, listeners, dispatch,
                   removed, disk, result>>

\* store.put(handle, id) of saveFolderHandle
AddPut(s) ==
    /\ calls[s].op = "add" /\ calls[s].pc = "saving"
    /\ idb' = IdbPut(idb, calls[s].id, calls[s].handle)
    /\ calls' = [calls EXCEPT ![s].pc = "saved"]
    /\ UNCHANGED <<trackedFolders, loading, error, metadata, load, now, widget, listeners, dispatch,
                   removed, disk, result>>

\* the names of the DOMException a failed IndexedDB request carries in
\* request.error: "AbortError" when its transaction was aborted, another
\* name otherwise
RequestErrorNames == {"AbortError", "UnknownError"}

\* the catch of addFolder: `if (err.name === "AbortError") return;` and
\* setError otherwise
AddCaught(name) == IF name = "AbortError" THEN error ELSE "Failed to add folder"

\* saveFolderHandle rejects with request.error
AddSaveFail(s) ==
    /\ calls[s].op = "add" /\ calls[s].pc = "saving"
    /\ calls' = [calls EXCEPT ![s] = DoneCall]
    /\ \E name \in RequestErrorNames : error' = AddCaught(name)
    /\ UNCHANGED <<trackedFolders, loading, metadata, idb, load, now, widget, listeners, dispatch,
                   removed, disk, result>>

NewFolder(c, t) ==
    [id |-> c.id, name |-> disk[c.handle].name, handle |-> c.handle, addedAt |-> t]

\* [...trackedFolders, newFolder]
UpdatedOnAdd(c, t) == Append(c.snap, NewFolder(c, t))

\* saveFolderHandle has resolved: the rest of addFolder
AddDone(s) ==
    /\ calls[s].op = "add" /\ calls[s].pc = "saved"
    /\ LET updatedFolders == UpdatedOnAdd(calls[s], now) IN
       /\ trackedFolders' = updatedFolders
       /\ metadata' = ProjectMetadata(updatedFolders)
    /\ error' = NoError
    /\ removed' = {e \in removed : e.name # disk[calls[s].handle].name}
    /\ calls' = [calls EXCEPT ![s] = DoneCall]
    /\ UNCHANGED <<loading, idb, load, now, widget, listeners, dispatch, disk, result>>

(* removeFolder *)

\* an id no folder ever had
UnknownId == FolderId(0, 0)

\* the ids removeFolder is called with: those of the listed folders, and one
\* that is not tracked
RemovableIds == {trackedFolders[i].id : i \in DOMAIN trackedFolders} \cup {UnknownId}

\* removeFolder(id) is called and awaits deleteFolderHandle(id)
RemoveStart(s, id) ==
    /\ calls[s].op = "idle"
    /\ \A q \in Slots : q < s => calls[q].op # "idle"
    /\ calls' = [calls EXCEPT ![s] = Call("remove", "deleting", trackedFolders, id, NoHandle)]
    /\ UNCHANGED <<trackedFolders, loading, error, metadata, idb, load, now, widget, listeners, dispatch,
                   removed, disk, result>>

\* store.delete(id) of deleteFolderHandle
RemoveDelete(s) ==
    /\ calls[s].op = "remove" /\ calls[s].pc = "deleting"
    /\ idb' = IdbDelete(idb, calls[s].id)
    /\ calls' = [calls EXCEPT ![s].pc = "deleted"]
    /\ UNCHANGED <<trackedFolders, loading, error, metadata, load, now, widget, listeners, dispatch,
                   removed, disk, result>>

\* deleteFolderHandle rejects
RemoveFail(s) ==
    /\ calls[s].op = "remove" /\ calls[s].pc = "deleting"
    /\ calls' = [calls EXCEPT ![s] = DoneCall]
    /\ error' = "Failed to remove folder"
    /\ UNCHANGED <<trackedFolders, loading, metadata, idb, load, now, widget, listeners, dispatch,
                   removed, disk, result>>

\* trackedFolders.filter((f) => f.id !== id)
UpdatedOnRemove(c) == SelectSeqR(c.snap, {f \in Range(c.snap) : f.id # c.id})

\* deleteFolderHandle has resolved: the rest of removeFolder
RemoveDone(s) ==
    /\ calls[s].op = "remove" /\ calls[s].pc = "deleted"
    /\ LET updatedFolders == UpdatedOnRemove(calls[s]) IN
       /\ trackedFolders' = updatedFolders
       /\ metadata' = ProjectMetadata(updatedFolders)
    /\ error' = NoError
    /\ removed' = removed \cup
          {[id |-> f.id, name |-> f.name] : f \in {g \in Range(calls[s].snap) : g.id = calls[s].id}}
    /\ calls' = [calls EXCEPT ![s] = DoneCall]
    /\ UNCHANGED <<loading, idb, load, now, widget, listeners, dispatch, disk, result>>

(* the environment *)

\* a millisecond passes
Tick ==
    /\ now < MaxClock
    /\ now' = now + 1
    /\ UNCHANGED <<trackedFolders, loading, error, metadata, idb, calls, load,
                   removed, disk, result, listeners, dispatch, widget>>

Next ==
    \/ LoadGet
    \/ LoadGetFail
    \/ LoadQuery
    \/ \E s \in Slots : AddStart(s)
    \/ \E s \in Slots : AddUnsupported(s)
    \/ \E s \in Slots : AddAbort(s)
    \/ \E s \in Slots : AddPickerFail(s)
    \/ \E s \in Slots : AddPicked(s)
    \/ \E s \in Slots : AddPut(s)
    \/ \E s \in Slots : AddSaveFail(s)
    \/ \E s \in Slots : AddDone(s)
    \/ \E s \in Slots, id \in RemovableIds : RemoveStart(s, id)
    \/ \E s \in Slots : RemoveDelete(s)
    \/ \E s \in Slots : RemoveFail(s)
    \/ \E s \in Slots : RemoveDone(s)
    \/ Tick

Spec == Init /\ [][Next]_vars

(***************************************************************************)
(* Claims about the registry.                                              *)
(***************************************************************************)
NamesakesIn(folders, e) ==
    {i \in DOMAIN folders : folders[i].name = e.name /\ folders[i].id # e.id}

\* the virtual paths under a folder name that are resolved here
PathsUnder(name) == {<<"/">> \o name, JoinPath(<<"/">> \o name, <<"x">>)}

HookNotFound(name) ==
    \A path \in PathsUnder(name) :
        GetHandleFromPath(trackedFolders, disk, path).handle = NoHandle

ToolNotFound(name) ==
    \A path \in PathsUnder(name) :
        ToolGetFileHandle(metadata, idb, disk, path).status = "nofolder"

\* C1: once removeFolder(id) has completed, every path under that folder's
\* name resolves to NotFound (null in the hook, "Folder not found" in the
\* tools) until a folder of that name is added again, provided no other
\* tracked folder has the name; whatever add, remove or load calls were pending
C1_RemovedStaysNotFound ==
    \A e \in removed :
        /\ NamesakesIn(trackedFolders, e) = {} => HookNotFound(e.name)
        /\ NamesakesIn(metadata.items, e) = {} => ToolNotFound(e.name)

\* C2: no two TrackedFolder records have the same id, in the in-memory list
\* and in the metadata store, for any number of addFolder calls
C2_UniqueIds ==
    /\ \A i, j \in DOMAIN trackedFolders :
          i # j => trackedFolders[i].id # trackedFolders[j].id
    /\ \A i, j \in DOMAIN metadata.items :
          i # j => metadata.items[i].id # metadata.items[j].id

\* the records the claim keeps: those with a capability whose permission
\* query, when the capability offers one, answers "granted" or nothing
KeptByClaim(entry) ==
    /\ entry.cap
    /\ entry.kind # "absent" => entry.answer \in {"granted", "undefined"}

RECURSIVE ExpectedLoad(_, _, _)
ExpectedLoad(items, log, db) ==
    IF items = <<>> THEN <<>>
    ELSE (IF KeptByClaim(Head(log)) THEN <<Head(items)>> ELSE <<>>)
         \o ExpectedLoad(Tail(items), Tail(log), db)

\* C10: when load ends, the in-memory list holds, in metadata order, exactly
\* the metadata records that have a capability and whose permission query,
\* if the capability offers one, answered "granted" (or nothing)
C10_LoadKeepsGranted ==
    [][load.pc \in {"get", "query"} /\ load'.pc = "done"
         => ProjectMetadata(trackedFolders').items = ExpectedLoad(load'.meta, load'.log, idb)]_vars

\* the folders loadFolders has pushed so far: the records whose capability
\* was found and whose permission query did not answer "denied" or "prompt"
LoadedSoFar(ld) == {ld.folders[i].id : i \in DOMAIN ld.folders}

\* C11: a capability or permission failure for one folder during load never
\* sets the error state and never keeps the other folders of the metadata,
\* those loadFolders had already accepted, out of the in-memory list
C11_LoadFailuresAbsorbed ==
    [][load.pc \in {"get", "query"} /\ load'.pc \in {"done", "failed"}
         => /\ error' = error
            /\ LoadedSoFar(load) \subseteq {trackedFolders'[i].id : i \in DOMAIN trackedFolders'}]_vars

\* C12: when the user cancels the directory picker, addFolder ends without
\* setting the error state and leaves the list, the metadata and the
\* capability store as they were; every other failure of addFolder (no
\* picker in the window, the picker failing otherwise, the capability not
\* saved) sets the error state
C12_OnlyCancelIsSilent ==
    [][\A s \in Slots :
          /\ calls[s].pc = "picking" /\ calls'[s].op = "done"
                => \/ UNCHANGED <<trackedFolders, metadata, idb, error>>
                   \/ error' # NoError
          /\ calls[s].pc = "saving" /\ calls'[s].op = "done" => error' # NoError
          /\ calls[s].op = "idle" /\ calls'[s].op = "done" => error' # NoError]_vars

\* the records of a list other than those of id, in their order
Without(items, id) == SelectSeqR(items, {f \in Range(items) : f.id # id})

\* no other addFolder or removeFolder call is in flight and loadFolders has
\* set the list: the call in slot s ran on the current list
RunsAlone(s) ==
    /\ calls[s].snap = trackedFolders
    /\ load.pc = "done"
    /\ \A q \in Slots \ {s} : calls[q].op \in {"idle", "done"}

\* C13: removeFolder(id) leaves no capability record and no metadata record
\* for id and removes exactly that folder from the list, every other folder
\* keeping its records and its place; on an unknown id it sets no error and
\* leaves the list and the metadata records as they were (checked for calls
\* that run alone)
C13_RemoveOnlyThatFolder ==
    [][\A s \in Slots :
          calls[s].op = "remove" /\ calls[s].pc = "deleted" /\ calls'[s].op = "done"
             /\ RunsAlone(s)
          => /\ trackedFolders' = Without(trackedFolders, calls[s].id)
             /\ metadata'.items = Without(metadata.items, calls[s].id)
             /\ IdbGet(idb', calls[s].id) = NoHandle
             /\ \A id \in Ids \ {calls[s].id} : idb'[id] = idb[id]
             /\ error' = NoError]_vars

\* removeFolder has been called with id: a call is in flight or has completed
RemoveCalled(cs, id) ==
    \/ \E s \in Slots : cs[s].op = "remove" /\ cs[s].id = id
    \/ \E e \in removed : e.id = id

\* the folders addFolder has added since the hook mounted
AddedHere(folders) == {f \in Range(folders) : f.addedAt >= 1}

\* C20: under every interleaving of addFolder, removeFolder and load, a
\* folder that a completed addFolder put in the list and in the metadata
\* stays in both from one state to the next, as long as removeFolder has not
\* been called with its id
C20_AddedStaysTracked ==
    [][\A f \in AddedHere(trackedFolders) :
          (/\ MetaOf(f) \in Range(metadata.items)
           /\ ~RemoveCalled(calls, f.id)
           /\ ~RemoveCalled(calls', f.id))
          => /\ f \in Range(trackedFolders')
             /\ MetaOf(f) \in Range(metadata'.items)]_vars

\* loadFolders has set the list and no addFolder or removeFolder call is in
\* flight
RegistryAtRest ==
    /\ load.pc = "done"
    /\ \A s \in Slots : calls[s].op \in {"idle", "done"}

\* C21: in every state with no registry operation in progress, the metadata
\* store holds exactly the (id, name, addedAt) projection of the in-memory
\* list, in the same order
C21_MetadataMatchesList ==
    RegistryAtRest => metadata.items = ProjectMetadata(trackedFolders).items

(***************************************************************************)
(* The tree builder: getFileTree and expandDirectory.                      *)
(***************************************************************************)
MaxEntries == 3

Lower(c) ==
    CASE c = "A" -> "a"
      [] c = "B" -> "b"
      [] c = "F" -> "f"
      [] c = "G" -> "g"
      [] c = "N" -> "n"
      [] c = "O" -> "o"
      [] c = "P" -> "p"
      [] OTHER -> c

IsUpper(c) == Lower(c) # c

\* a.localeCompare(b) at the first level: letters in alphabetical order
\* whatever their case, a proper prefix first
RECURSIVE PrimaryCompare(_, _)
PrimaryCompare(a, b) ==
    IF a = <<>> THEN (IF b = <<>> THEN 0 ELSE 0 - 1)
    ELSE IF b = <<>> THEN 1
    ELSE IF Code(Lower(Head(a))) < Code(Lower(Head(b))) THEN 0 - 1
    ELSE IF Code(Lower(Head(a))) > Code(Lower(Head(b))) THEN 1
    ELSE PrimaryCompare(Tail(a), Tail(b))

\* a.localeCompare(b) among strings that differ in case only: at the first
\* difference the lower-case letter comes first
RECURSIVE CaseCompare(_, _)
CaseCompare(a, b) ==
    IF a = <<>> \/ b = <<>> THEN 0
    ELSE IF Head(a) = Head(b) THEN CaseCompare(Tail(a), Tail(b))
    ELSE IF IsUpper(Head(b)) THEN 0 - 1
    ELSE 1

\* a.localeCompare(b) for names made of letters, in the default collation
LocaleCompare(a, b) ==
    IF PrimaryCompare(a, b) # 0 THEN PrimaryCompare(a, b) ELSE CaseCompare(a, b)

DirNode(name, path, children, expanded) ==
    [name |-> name, path |-> path, type |-> "directory",
     children |-> children, expanded |-> expanded]

FileNode(name, path, size) ==
    [name |-> name, path |-> path, type |-> "file", size |-> size]

\* the node pushed for one enumerated entry
NodeOf(d, basePath, h) ==
    IF d[h].kind = "directory"
    THEN DirNode(d[h].name, JoinPath(basePath, d[h].name), <<>>, FALSE)
    ELSE FileNode(d[h].name, JoinPath(basePath, d[h].name), Len(d[h].content))

CompareNodesByName(a, b) == LocaleCompare(a.name, b.name)

\* the comparator given to children.sort
CompareNodes(a, b) ==
    IF a.type # b.type THEN (IF a.type = "directory" THEN 0 - 1 ELSE 1)
    ELSE LocaleCompare(a.name, b.name)

\* x put into a sorted array behind everything that does not come after it
RECURSIVE InsertNode(_, _)
InsertNode(x, sorted) ==
    IF sorted = <<>> THEN <<x>>
    ELSE IF CompareNodes(Head(sorted), x) <= 0
         THEN <<Head(sorted)>> \o InsertNode(x, Tail(sorted))
         ELSE <<x>> \o sorted

RECURSIVE SortFrom(_, _)
SortFrom(s, sorted) ==
    IF s = <<>> THEN sorted ELSE SortFrom(Tail(s), InsertNode(Head(s), sorted))

AsEnumerated(s) == s

\* children.sort(comparator): a stable sort
SortNodes(s) == SortFrom(s, <<>>)

\* the children built from one enumeration of a directory, then sorted
BuildChildren(d, basePath, order) ==
    SortNodes([i \in DOMAIN order |-> NodeOf(d, basePath, order[i])])

BuildTreeChildless(d, folder, order) ==
    DirNode(folder.name, <<"/">> \o folder.name, <<>>, TRUE)

\* buildTree(folder.handle, `/${folder.name}`, folder.name)
BuildTree(d, folder, order) ==
    DirNode(folder.name, <<"/">> \o folder.name,
            BuildChildren(d, <<"/">> \o folder.name, order), TRUE)

\* the directory expandDirectory navigates to: NoHandle when no folder has
\* the name or getDirectoryHandle throws on the way
ExpandTarget(folders, d, path) ==
    LET parts == SplitPath(path)
        fi == IF parts = <<>> THEN 0 ELSE FindByName(folders, parts[1])
    IN  IF fi = 0 THEN NoHandle
        ELSE WalkDirs(d, folders[fi].handle, Tail(parts), Len(parts) - 1)

\* names of directory entries: they differ in case, in length, or both
TreeNames == <<<<"a">>, <<"B">>, <<"a", "b">>, <<"A">>>>

EntryKinds == {"none", "file", "directory"}

\* the entries of the first directory: one per name, MaxEntries at most
Named == 1..Min(MaxEntries, Len(TreeNames))

\* a disk with two directories the picker can return, "a" and one named n2.
\* The first holds an entry of kind k[j] named TreeNames[j] for each j; when
\* its entry "a" is a directory, that one holds the files "A" and "a".  The
\* second holds a file "a".
TreeDisk(n2, k) ==
    <<Entry("directory", <<"a">>, NoHandle, <<>>),
      Entry("directory", n2, NoHandle, <<>>)>>
    \o [j \in Named |->
          IF k[j] = "none" THEN NoEntry ELSE Entry(k[j], TreeNames[j], 1, <<>>)]
    \o <<Entry("file", <<"a">>, 2, <<"z">>),
         IF k[1] = "directory" THEN Entry("file", <<"A">>, 3, <<>>) ELSE NoEntry,
         IF k[1] = "directory" THEN Entry("file", <<"a">>, 3, <<"z", "z">>) ELSE NoEntry>>

TreeDisks ==
    {TreeDisk(n2, k) : n2 \in {<<"a">>, <<"b">>}, k \in [Named -> EntryKinds]}

\* the folder tracked in position i for directory h
TreeFolder(d, i, h) ==
    [id |-> FolderId(i - 2, 1), name |-> d[h].name, handle |-> h, addedAt |-> i - 2]

\* the registries over the roots of d: any sequence of them, a directory
\* possibly picked twice
TreeRegistries(d) ==
    UNION {{[i \in 1..n |-> TreeFolder(d, i, pick[i])] : pick \in [1..n -> Roots(d)]} :
              n \in 0..Cardinality(Roots(d))}

RECURSIVE IdbOf(_)
IdbOf(folders) ==
    IF folders = <<>> THEN EmptyIdb
    ELSE IdbPut(IdbOf(Tail(folders)), Head(folders).id, Head(folders).handle)

\* the hook after load, with some folders tracked, over some disk
TreeInit ==
    /\ disk \in TreeDisks
    /\ trackedFolders \in TreeRegistries(disk)
    /\ metadata = ProjectMetadata(trackedFolders)
    /\ idb = IdbOf(trackedFolders)
    /\ load = LoadRecord("done", metadata.items)
    /\ loading = FALSE
    /\ error = NoError
    /\ calls = [s \in Slots |-> IdleCall]
    /\ now = 1
    /\ removed = {}
    /\ listeners = <<>>
    /\ dispatch = NoDispatch
    /\ widget = NoWidget
    /\ result = NoResult

\* the virtual path that spells the position of node n
RECURSIVE PathOf(_, _)
PathOf(d, n) ==
    IF d[n].parent = NoHandle THEN <<"/">> \o d[n].name
    ELSE JoinPath(PathOf(d, d[n].parent), d[n].name)

\* paths of no entry: the empty path, the bare separator, a folder nobody
\* tracks, a name no directory holds
OtherPaths ==
    {<<>>, <<"/">>, <<"/", "z">>, <<"/", "a", "/", "z">>,
     <<"/", "a", "/", "B", "/", "a">>, <<"/", "a", "/", "/", "a", "/", "a", "/">>}

\* the paths expandDirectory is called with: those of the entries and the others
TreePaths == {PathOf(disk, n) : n \in {m \in DOMAIN disk : Exists(disk, m)}}
                \cup OtherPaths

NullNode == [type |-> "null"]

\* the last call, when it was this very call: what its result is compared to
Earlier(op, arg) ==
    IF result.op = op /\ result.arg = arg
    THEN [op |-> op, arg |-> arg, value |-> result.value, failed |-> result.failed]
    ELSE NoResult

TreeResult(op, arg, dir, order, value, failed) ==
    [op |-> op, arg |-> arg, dir |-> dir, order |-> order, value |-> value,
     failed |-> failed, before |-> Earlier(op, arg),
     reordered |-> /\ result.op = op
                   /\ result.arg = arg
                   /\ result.order # order]

\* getFileTree(folderId) returns: null for an unknown id, else the root node
\* with one level of children, entries enumerated in some order
TreeGetFileTree ==
    /\ \E id \in {trackedFolders[i].id : i \in DOMAIN trackedFolders} \cup {UnknownId} :
          LET fi == FindById(trackedFolders, id) IN
          IF fi = 0
          THEN result' = TreeResult("getFileTree", id, NoHandle, <<>>, NullNode, FALSE)
          ELSE \E order \in Orders(Children(disk, trackedFolders[fi].handle)) :
                  result' = TreeResult("getFileTree", id, trackedFolders[fi].handle, order,
                                       BuildTree(disk, trackedFolders[fi], order), FALSE)
    /\ UNCHANGED <<trackedFolders, loading, error, metadata, idb, calls, load,
                   now, widget, listeners, dispatch, removed, disk>>

\* values() or getFile() rejects inside buildTree: the catch of getFileTree
TreeGetFileTreeFail ==
    /\ \E fi \in DOMAIN trackedFolders :
          result' = TreeResult("getFileTree", trackedFolders[fi].id,
                               trackedFolders[fi].handle, <<>>, NullNode, TRUE)
    /\ error' = "Failed to build file tree"
    /\ UNCHANGED <<trackedFolders, loading, metadata, idb, calls, load,
                   now, widget, listeners, dispatch, removed, disk>>

\* expandDirectory(path) returns: [] for an empty path or an unknown folder,
\* [] with an error when the navigation throws, else the sorted children
TreeExpandDirectory ==
    /\ \E path \in TreePaths :
          LET parts == SplitPath(path)
              fi == IF parts = <<>> THEN 0 ELSE FindByName(trackedFolders, parts[1])
              dir == ExpandTarget(trackedFolders, disk, path)
          IN  IF fi = 0
              THEN /\ result' = TreeResult("expandDirectory", path, NoHandle, <<>>, <<>>, FALSE)
                   /\ UNCHANGED error
              ELSE IF dir = NoHandle
              THEN /\ result' = TreeResult("expandDirectory", path, NoHandle, <<>>, <<>>, TRUE)
                   /\ error' = "Failed to expand directory"
              ELSE /\ \E order \in Orders(Children(disk, dir)) :
                         result' = TreeResult("expandDirectory", path, dir, order,
                                              BuildChildren(disk, path, order), FALSE)
                   /\ UNCHANGED error
    /\ UNCHANGED <<trackedFolders, loading, metadata, idb, calls, load,
                   now, widget, listeners, dispatch, removed, disk>>

\* values() or getFile() rejects inside expandDirectory: its catch
TreeExpandFail ==
    /\ \E path \in TreePaths :
          /\ ExpandTarget(trackedFolders, disk, path) # NoHandle
          /\ result' = TreeResult("expandDirectory", path,
                                  ExpandTarget(trackedFolders, disk, path), <<>>, <<>>, TRUE)
    /\ error' = "Failed to expand directory"
    /\ UNCHANGED <<trackedFolders, loading, metadata, idb, calls, load,
                   now, widget, listeners, dispatch, removed, disk>>

\* every node a tree call has returned
NodesOf(r) ==
    IF r.op = "getFileTree" /\ r.value.type # "null" THEN <<r.value>> \o r.value.children
    ELSE IF r.op = "expandDirectory" THEN r.value
    ELSE <<>>

\* the entry that was enumerated to produce a node of r: the folder's own
\* directory for the root node, else the entry of that name in the directory
EntryOf(r, node) ==
    IF r.op = "getFileTree" /\ node = r.value THEN r.dir
    ELSE CHOOSE h \in Children(disk, r.dir) : disk[h].name = node.name

ResolveResult(path, node, entry) ==
    LET found == GetHandleFromPath(trackedFolders, disk, path) IN
    [op |-> "getHandleFromPath", arg |-> path, node |-> node, entry |-> entry,
     handle |-> found.handle, failed |-> found.failed]

\* getHandleFromPath(node.path) for a node of the tree just returned
TreeResolveNode ==
    /\ \E i \in DOMAIN NodesOf(result) :
          LET node == NodesOf(result)[i] IN
          result' = ResolveResult(node.path, node, EntryOf(result, node))
    /\ error' = IF result'.failed THEN "Path not found" ELSE error
    /\ UNCHANGED <<trackedFolders, loading, metadata, idb, calls, load,
                   now, widget, listeners, dispatch, removed, disk>>

\* getHandleFromPath(path) for a path of no entry
TreeResolvePath ==
    /\ \E path \in OtherPaths : result' = ResolveResult(path, NullNode, NoHandle)
    /\ error' = IF result'.failed THEN "Path not found" ELSE error
    /\ UNCHANGED <<trackedFolders, loading, metadata, idb, calls, load,
                   now, widget, listeners, dispatch, removed, disk>>

TreeNext ==
    \/ TreeGetFileTree
    \/ TreeGetFileTreeFail
    \/ TreeExpandDirectory
    \/ TreeExpandFail
    \/ TreeResolveNode
    \/ TreeResolvePath

SpecTree == TreeInit /\ [][TreeNext]_vars

(***************************************************************************)
(* Claims about the tree builder and the resolver.                         *)
(***************************************************************************)
\* C3: for every registry, two folders of one display name included, and
\* every node a tree call returned, getHandleFromPath(node.path) returns a
\* handle, of the node's type, that designates the entry the node was built
\* from
C3_NodePathsResolve ==
    (result.op = "getHandleFromPath" /\ result.node.type # "null") =>
        /\ result.handle # NoHandle
        /\ disk[result.handle].kind = result.node.type
        /\ result.handle = result.entry

\* u <= v in the order of the UTF-16 code units
RECURSIVE CodeUnitLeq(_, _)
CodeUnitLeq(u, v) ==
    IF u = <<>> THEN TRUE
    ELSE IF v = <<>> THEN FALSE
    ELSE IF Code(Head(u)) # Code(Head(v)) THEN Code(Head(u)) < Code(Head(v))
    ELSE CodeUnitLeq(Tail(u), Tail(v))

\* the children sequences a tree call has returned
ChildrenOf(r) ==
    IF r.op = "getFileTree" /\ r.value.type # "null" THEN r.value.children
    ELSE IF r.op = "expandDirectory" THEN r.value
    ELSE <<>>

DirectoriesFirst(ch) ==
    \A i, j \in DOMAIN ch : (i < j /\ ch[j].type = "directory") => ch[i].type = "directory"

\* C8 as stated: directories precede files and, within each group, names are
\* non-decreasing under case-sensitive comparison of their code units
C8_SortedCaseSensitive ==
    LET ch == ChildrenOf(result) IN
    /\ DirectoriesFirst(ch)
    /\ \A i, j \in DOMAIN ch :
          (i < j /\ ch[i].type = ch[j].type) => CodeUnitLeq(ch[i].name, ch[j].name)

\* u before v in alphabetical order: letter by letter whatever the case, a
\* prefix first; among names that differ in case only, the one with the
\* lower-case letter at the first difference
Alphabetical(u, v) ==
    \/ \E n \in 1..Min(Len(u), Len(v)) :
          /\ \A m \in 1..(n - 1) : Lower(u[m]) = Lower(v[m])
          /\ Code(Lower(u[n])) < Code(Lower(v[n]))
    \/ /\ Len(u) < Len(v)
       /\ \A m \in 1..Len(u) : Lower(u[m]) = Lower(v[m])
    \/ /\ Len(u) = Len(v)
       /\ \A m \in 1..Len(u) : Lower(u[m]) = Lower(v[m])
       /\ \E n \in 1..Len(u) :
             /\ \A m \in 1..(n - 1) : u[m] = v[m]
             /\ u[n] # v[n]
             /\ ~IsUpper(u[n])

\* C8, amended: in every children sequence returned by getFileTree and by
\* expandDirectory, whatever the enumeration order, directories precede files
\* and, within each group, names are in alphabetical (locale) order, in which
\* case only breaks ties
C8_SortedAlphabetical ==
    LET ch == ChildrenOf(result) IN
    /\ DirectoriesFirst(ch)
    /\ \A i, j \in DOMAIN ch :
          (i < j /\ ch[i].type = ch[j].type) => Alphabetical(ch[i].name, ch[j].name)

\* an enumeration that hands out a file before a directory and an upper-case
\* name before a lower-case one has been sorted
C8_Witness ==
    /\ result.op \in {"getFileTree", "expandDirectory"}
    /\ Len(ChildrenOf(result)) >= 3
    /\ \E i, j \in DOMAIN result.order :
          /\ i < j
          /\ disk[result.order[i]].kind = "file"
          /\ disk[result.order[j]].kind = "directory"
    /\ \E i, j \in DOMAIN result.order :
          /\ i < j
          /\ disk[result.order[i]].kind = disk[result.order[j]].kind
          /\ IsUpper(disk[result.order[i]].name[1])
          /\ ~IsUpper(disk[result.order[j]].name[1])

RECURSIVE IsBelow(_, _, _)
IsBelow(d, n, dir) ==
    /\ d[n].parent # NoHandle
    /\ (d[n].parent = dir \/ IsBelow(d, d[n].parent, dir))

Descendants(d, dir) == {n \in DOMAIN d : Exists(d, n) /\ IsBelow(d, n, dir)}

\* the path of the entry n below dir, dir having the path base
RECURSIVE PathFrom(_, _, _, _)
PathFrom(d, n, dir, base) ==
    IF d[n].parent = dir THEN JoinPath(base, d[n].name)
    ELSE JoinPath(PathFrom(d, d[n].parent, dir, base), d[n].name)

\* what a tree says of an entry: where it is, what it is called, what it is
Place(name, path, type) == [name |-> name, path |-> path, type |-> type]

PlaceOfNode(node) == Place(node.name, node.path, node.type)

PlaceOfEntry(d, n, dir, base) == Place(d[n].name, PathFrom(d, n, dir, base), d[n].kind)

\* the places of the nodes of a tree, at every depth
RECURSIVE PlacesIn(_)
PlacesIn(node) ==
    {PlaceOfNode(node)} \cup
    (IF node.type = "directory"
     THEN UNION {PlacesIn(node.children[i]) : i \in DOMAIN node.children}
     ELSE {})

\* the folder a getFileTree call was about
FolderOf(r) == trackedFolders[FindById(trackedFolders, r.arg)]

TreeReturned(r) == r.op = "getFileTree" /\ r.value.type # "null"

\* the root node represents the folder itself
RootedAt(root, folder) ==
    /\ root.name = folder.name
    /\ root.path = <<"/">> \o folder.name
    /\ root.type = "directory"
    /\ root.expanded

\* C14 as stated: getFileTree(folder) returns a tree rooted at the folder's
\* node (name, path "/<name>", directory, expanded) that holds a node for
\* every descendant of the folder at every depth
C14_TreeFullyPopulated ==
    TreeReturned(result) =>
        /\ RootedAt(result.value, FolderOf(result))
        /\ \A n \in Descendants(disk, result.dir) :
              PlaceOfEntry(disk, n, result.dir, result.value.path) \in PlacesIn(result.value)

\* C14, amended: getFileTree(folder) returns the folder's node (name, path
\* "/<name>", directory, expanded) with exactly one child node for every
\* direct child of the folder; a sub-directory's node is not expanded and has
\* no children
C14_TreeOneLevel ==
    TreeReturned(result) =>
        LET root == result.value
            direct == Children(disk, result.dir)
        IN  /\ RootedAt(root, FolderOf(result))
            /\ Len(root.children) = Cardinality(direct)
            /\ {PlaceOfNode(root.children[i]) : i \in DOMAIN root.children}
                  = {PlaceOfEntry(disk, n, result.dir, root.path) : n \in direct}
            /\ \A i \in DOMAIN root.children :
                  root.children[i].type = "directory" =>
                      /\ root.children[i].children = <<>>
                      /\ ~root.children[i].expanded

\* a tree was returned for a folder that holds files and a sub-directory
\* with files of its own
C14_Witness ==
    /\ TreeReturned(result)
    /\ Len(result.value.children) >= 2
    /\ \E n \in Children(disk, result.dir) : disk[n].kind = "file"
    /\ Descendants(disk, result.dir) # Children(disk, result.dir)

\* the handles a path leads through, one per segment, when every segment
\* but the last names a directory child of the handle before it and the
\* last names a directory child or, failing that, a file child
Walks(folders, d, parts) ==
    {w \in [DOMAIN parts -> DOMAIN d] :
        /\ w[1] = folders[FindByName(folders, parts[1])].handle
        /\ \A i \in 2..(Len(parts) - 1) :
              w[i] \in ChildNamed(d, w[i - 1], parts[i], "directory")
        /\ Len(parts) > 1 =>
              LET last == Len(parts) IN
              \/ w[last] \in ChildNamed(d, w[last - 1], parts[last], "directory")
              \/ /\ ChildNamed(d, w[last - 1], parts[last], "directory") = {}
                 /\ w[last] \in ChildNamed(d, w[last - 1], parts[last], "file")}

\* C22: getHandleFromPath returns the handle the segments lead to, every
\* segment but the last taken as a directory child and the last as a
\* directory child or else as a file child; it returns null when a segment
\* does not resolve, when no folder has the first segment's name and when
\* the path has no segment; a path of the folder segment alone gives the
\* folder's own handle
C22_WalkLeftToRight ==
    result.op = "getHandleFromPath" =>
        LET parts == SplitPath(result.arg) IN
        IF parts = <<>> \/ FindByName(trackedFolders, parts[1]) = 0
        THEN result.handle = NoHandle
        ELSE LET ws == Walks(trackedFolders, disk, parts) IN
             /\ ws = {} => result.handle = NoHandle /\ result.failed
             /\ \A w \in ws : result.handle = w[Len(parts)]
             /\ Len(parts) = 1 =>
                   result.handle = trackedFolders[FindByName(trackedFolders, parts[1])].handle

\* a path of three segments was resolved to a file: its last segment was
\* tried as a directory first, then as a file
C22_Witness ==
    /\ result.op = "getHandleFromPath"
    /\ Len(SplitPath(result.arg)) = 3
    /\ result.handle # NoHandle
    /\ disk[result.handle].kind = "file"

(***************************************************************************)
(* The file tools: readFile, writeFile and editFile.                       *)
(***************************************************************************)
\* readFile's default limit and the longest line it returns whole
DefaultLimit == 2000
MaxLineLength == 2000

\* text.split("\n") of s[lo..hi], by halves
RECURSIVE SplitRange(_, _, _)
SplitRange(s, lo, hi) ==
    IF lo > hi THEN <<<<>>>>
    ELSE IF lo = hi THEN (IF s[lo] = "\n" THEN <<<<>>, <<>>>> ELSE <<<<s[lo]>>>>)
    ELSE LET mid == (lo + hi) \div 2
             left == SplitRange(s, lo, mid)
             right == SplitRange(s, mid + 1, hi)
         IN  SubSeq(left, 1, Len(left) - 1)
             \o <<left[Len(left)] \o right[1]>>
             \o Tail(right)

\* text.split("\n")
SplitLines(text) == SplitRange(text, 1, Len(text))

\* lines[lo..hi].join("\n"), by halves
RECURSIVE JoinRange(_, _, _)
JoinRange(lines, lo, hi) ==
    IF lo > hi THEN <<>>
    ELSE IF lo = hi THEN lines[lo]
    ELSE LET mid == (lo + hi) \div 2 IN
         JoinRange(lines, lo, mid) \o <<"\n">> \o JoinRange(lines, mid + 1, hi)

\* lines.join("\n")
JoinLines(lines) == JoinRange(lines, 1, Len(lines))

Digit(n) == <<"0", "1", "2", "3", "4", "5", "6", "7", "8", "9">>[n + 1]

\* lineNumber.toString()
RECURSIVE NumberToString(_)
NumberToString(n) == IF n < 10 THEN <<Digit(n)>> ELSE NumberToString(n \div 10) \o <<Digit(n % 10)>>

\* s.padStart(width)
PadStart(s, width) == [i \in 1..(width - Len(s)) |-> " "] \o s

\* s.endsWith(suffix), s.startsWith(prefix)
EndsWith(s, suffix) ==
    Len(suffix) <= Len(s) /\ SubSeq(s, Len(s) - Len(suffix) + 1, Len(s)) = suffix
StartsWith(s, prefix) ==
    Len(prefix) <= Len(s) /\ SubSeq(s, 1, Len(prefix)) = prefix

ToLowerCase(s) == [i \in DOMAIN s |-> Lower(s[i])]

ImageExtensions ==
    {<<".", "p", "n", "g">>, <<".", "j", "p", "g">>, <<".", "j", "p", "e", "g">>,
     <<".", "g", "i", "f">>, <<".", "w", "e", "b", "p">>, <<".", "b", "m", "p">>,
     <<".", "s", "v", "g">>, <<".", "i", "c", "o">>}

\* isImageFile(filename, mimeType)
IsImageFile(filename, mimeType) ==
    \/ \E ext \in ImageExtensions : EndsWith(ToLowerCase(filename), ext)
    \/ StartsWith(mimeType, <<"i", "m", "a", "g", "e", "/">>)

\* file.type: the media type the platform derives from the name of a file,
\* empty when it knows none
FileType(name) ==
    IF EndsWith(ToLowerCase(name), <<".", "p", "n", "g">>)
    THEN <<"i", "m", "a", "g", "e", "/", "p", "n", "g">>
    ELSE IF EndsWith(ToLowerCase(name), <<".", "a", "v", "i", "f">>)
    THEN <<"i", "m", "a", "g", "e", "/", "a", "v", "i", "f">>
    ELSE <<>>

OctetStream == <<"a", "p", "p", "l", "i", "c", "a", "t", "i", "o", "n", "/",
                 "o", "c", "t", "e", "t", "-", "s", "t", "r", "e", "a", "m">>

TruncationMark == <<".", ".", ".", "[", "t", "r", "u", "n", "c", "a", "t", "e", "d", "]">>

TruncatedBelow(line) ==
    IF Len(line) >= MaxLineLength
    THEN SubSeq(line, 1, MaxLineLength - 1) \o TruncationMark
    ELSE line

\* line.length > 2000 ? line.substring(0, 2000) + "...[truncated]" : line
TruncatedLine(line) ==
    IF Len(line) > MaxLineLength
    THEN SubSeq(line, 1, MaxLineLength) \o TruncationMark
    ELSE line

\* `${lineNumber.toString().padStart(6)}→${truncatedLine}`
FormatLine(lineNumber, line) ==
    PadStart(NumberToString(lineNumber), 6) \o <<"→">> \o TruncatedLine(line)

\* file.size: the bytes of the text in UTF-8
SizeOf(text) == Len(text) + 2 * Cardinality({i \in DOMAIN text : text[i] = "→"})

\* an optional argument: left out, or given
Undefined == [given |-> FALSE]
Given(n) == [given |-> TRUE, value |-> n]

\* readFile({path, offset, limit}): what it throws, or what it returns
ReadFile(meta, db, d, path, offset, limit) ==
    LET found == ToolGetFileHandle(meta, db, d, path)
        name == d[found.handle].name
        text == d[found.handle].content
        mimeType == IF FileType(name) = <<>> THEN OctetStream ELSE FileType(name)
        lines == SplitLines(text)
        startLine == Max(0, IF offset.given THEN offset.value ELSE 0)
        endLine == Min(Len(lines),
                       startLine + (IF limit.given THEN limit.value ELSE DefaultLimit))
        selectedLines == SubSeq(lines, startLine + 1, endLine)
    IN  IF found.status = "invalid" THEN [status |-> "Invalid path: empty path"]
        ELSE IF found.status = "nofolder" THEN [status |-> "Folder not found"]
        ELSE IF found.handle = NoHandle THEN [status |-> "File not found"]
        ELSE IF IsImageFile(name, mimeType)
        THEN [status |-> "ok", attachment |-> [filename |-> name, mimeType |-> mimeType],
              isImage |-> TRUE, size |-> SizeOf(text)]
        ELSE [status |-> "ok",
              content |-> JoinLines([i \in DOMAIN selectedLines |->
                                        FormatLine(startLine + i, selectedLines[i])]),
              isImage |-> FALSE, size |-> SizeOf(text), lineCount |-> Len(lines),
              offset |-> startLine, limit |-> endLine - startLine]

\* getDirectoryHandle(name, {create: true}) along the first n parts: the disk
\* with the directories made, and the directory reached (NoHandle when a
\* part names a file, which makes getDirectoryHandle throw)
RECURSIVE MakeDirs(_, _, _, _)
MakeDirs(d, dir, parts, n) ==
    IF n = 0 THEN [disk |-> d, dir |-> dir]
    ELSE LET prev == MakeDirs(d, dir, parts, n - 1)
             h == GetDirectoryHandle(prev.disk, prev.dir, parts[n])
         IN  IF prev.dir = NoHandle THEN prev
             ELSE IF h # NoHandle THEN [disk |-> prev.disk, dir |-> h]
             ELSE IF ChildNamed(prev.disk, prev.dir, parts[n], "file") # {}
             THEN [disk |-> prev.disk, dir |-> NoHandle]
             ELSE [disk |-> Append(prev.disk, Entry("directory", parts[n], prev.dir, <<>>)),
                   dir |-> Len(prev.disk) + 1]

\* getFileHandle(fileName, {create: true}): the disk, with an empty file made
\* when there was none, and the file (NoHandle when the name is a directory's)
MakeFile(d, dir, fileName) ==
    IF GetFileHandle(d, dir, fileName) # NoHandle
    THEN [disk |-> d, file |-> GetFileHandle(d, dir, fileName)]
    ELSE IF ChildNamed(d, dir, fileName, "directory") # {}
    THEN [disk |-> d, file |-> NoHandle]
    ELSE [disk |-> Append(d, Entry("file", fileName, dir, <<>>)), file |-> Len(d) + 1]

ChangeEvent(type, path) == [type |-> type, path |-> path]

WriteFailed == "Failed to write file"

\* writeFile with emitChange called before createWritable, write and close
WriteFileNotifyingFirst(meta, db, d, path, content, writable) ==
    LET folders == GetTrackedFolders(meta, db)
        parts == SplitPath(path)
        fi == IF parts = <<>> THEN 0 ELSE FindByName(folders, parts[1])
        rel == Tail(parts)
        n == Max(Len(rel) - 1, 0)
        fileName == IF rel = <<>> THEN UndefinedName ELSE rel[Len(rel)]
        checkDir == WalkDirs(d, folders[fi].handle, rel, n)
        fileExists == checkDir # NoHandle /\ GetFileHandle(d, checkDir, fileName) # NoHandle
        dirs == MakeDirs(d, folders[fi].handle, rel, n)
        made == MakeFile(dirs.disk, dirs.dir, fileName)
        event == ChangeEvent(IF fileExists THEN "update" ELSE "create", path)
    IN  IF parts = <<>>
        THEN [status |-> "Invalid path: empty path", disk |-> d, emitted |-> <<>>]
        ELSE IF fi = 0
        THEN [status |-> "Folder not found", disk |-> d, emitted |-> <<>>]
        ELSE IF dirs.dir = NoHandle
        THEN [status |-> WriteFailed, disk |-> dirs.disk, emitted |-> <<>>]
        ELSE IF made.file = NoHandle
        THEN [status |-> WriteFailed, disk |-> made.disk, emitted |-> <<>>]
        ELSE IF ~writable
        THEN [status |-> WriteFailed, disk |-> made.disk, emitted |-> <<event>>]
        ELSE [status |-> "ok",
              disk |-> [made.disk EXCEPT ![made.file].content = content],
              emitted |-> <<event>>]

\* writeFile({path, content}): what it throws or "ok", the disk it leaves and
\* the change events it emits; writable tells whether createWritable, write
\* and close succeed
WriteFile(meta, db, d, path, content, writable) ==
    LET folders == GetTrackedFolders(meta, db)
        parts == SplitPath(path)
        fi == IF parts = <<>> THEN 0 ELSE FindByName(folders, parts[1])
        rel == Tail(parts)
        n == Max(Len(rel) - 1, 0)
        fileName == IF rel = <<>> THEN UndefinedName ELSE rel[Len(rel)]
        checkDir == WalkDirs(d, folders[fi].handle, rel, n)
        fileExists == checkDir # NoHandle /\ GetFileHandle(d, checkDir, fileName) # NoHandle
        dirs == MakeDirs(d, folders[fi].handle, rel, n)
        made == MakeFile(dirs.disk, dirs.dir, fileName)
    IN  IF parts = <<>>
        THEN [status |-> "Invalid path: empty path", disk |-> d, emitted |-> <<>>]
        ELSE IF fi = 0
        THEN [status |-> "Folder not found", disk |-> d, emitted |-> <<>>]
        ELSE IF dirs.dir = NoHandle
        THEN [status |-> WriteFailed, disk |-> dirs.disk, emitted |-> <<>>]
        ELSE IF made.file = NoHandle \/ ~writable
        THEN [status |-> WriteFailed, disk |-> made.disk, emitted |-> <<>>]
        ELSE [status |-> "ok",
              disk |-> [made.disk EXCEPT ![made.file].content = content],
              emitted |-> <<ChangeEvent(IF fileExists THEN "update" ELSE "create", path)>>]

RegExpSpecial == {".", "*", "+", "?", "^", "$", "{", "}", "(", ")", "|", "[", "]", "\\"}

Unescaped(str) == str

\* oldString.replace(/[.*+?^${}()|[\]\\]/g, "\\$&")
RECURSIVE EscapeRegExp(_)
EscapeRegExp(str) ==
    IF str = <<>> THEN <<>>
    ELSE (IF Head(str) \in RegExpSpecial THEN <<"\\", Head(str)>> ELSE <<Head(str)>>)
         \o EscapeRegExp(Tail(str))

\* new RegExp(source, "g"), for a source without quantifiers, groups or
\* classes: an escaped character is itself, a bare dot is any character but
\* a line break, any other character is itself
RECURSIVE Atoms(_)
Atoms(source) ==
    IF source = <<>> THEN <<>>
    ELSE IF Head(source) = "\\" /\ Len(source) >= 2
         THEN <<[any |-> FALSE, ch |-> source[2] ]>> \o Atoms(Tail(Tail(source)))
         ELSE <<[any |-> Head(source) = ".", ch |-> Head(source)]>> \o Atoms(Tail(source))

AtomMatches(atom, ignoreCase, c) ==
    IF atom.any THEN c # "\n"
    ELSE IF ignoreCase THEN Lower(atom.ch) = Lower(c)
    ELSE atom.ch = c

\* the regular expression matches text at index i (from 1)
MatchesAt(atoms, ignoreCase, text, i) ==
    /\ i + Len(atoms) - 1 <= Len(text)
    /\ \A k \in DOMAIN atoms : AtomMatches(atoms[k], ignoreCase, text[i + k - 1])

\* content.replace(regex, () => { replacements++; return newString; }) from
\* index i on: the text produced and the number of calls of the replacer
RECURSIVE ReplaceFrom(_, _, _, _)
ReplaceFrom(atoms, text, i, newString) ==
    IF i > Len(text) + 1 THEN [text |-> <<>>, count |-> 0]
    ELSE IF MatchesAt(atoms, FALSE, text, i)
    THEN LET step == IF atoms = <<>> THEN 1 ELSE Len(atoms)
             rest == ReplaceFrom(atoms, text, i + step, newString)
         IN  [text |-> newString
                       \o (IF atoms = <<>> /\ i <= Len(text) THEN <<text[i]>> ELSE <<>>)
                       \o rest.text,
              count |-> rest.count + 1]
    ELSE LET rest == ReplaceFrom(atoms, text, i + 1, newString) IN
         [text |-> (IF i <= Len(text) THEN <<text[i]>> ELSE <<>>) \o rest.text,
          count |-> rest.count]

\* content.indexOf(oldString), from 0; -1 when there is none
IndexOf(content, oldString) ==
    LET at == {i \in 0..(Len(content) - Len(oldString)) :
                  SubSeq(content, i + 1, i + Len(oldString)) = oldString}
    IN  IF at = {} THEN 0 - 1 ELSE CHOOSE i \in at : \A j \in at : i <= j

\* the replacement editFile performs: the new content and the count, with
\* found FALSE when it throws "String not found in file"
Replacement(content, oldString, newString, replaceAll) ==
    LET index == IndexOf(content, oldString)
        all == ReplaceFrom(Atoms(EscapeRegExp(oldString)), content, 1, newString)
    IN  IF replaceAll THEN [found |-> TRUE, text |-> all.text, count |-> all.count]
        ELSE IF index = 0 - 1 THEN [found |-> FALSE, text |-> content, count |-> 0]
        ELSE [found |-> TRUE,
              text |-> SubSeq(content, 1, index) \o newString
                       \o SubSeq(content, index + Len(oldString) + 1, Len(content)),
              count |-> 1]

\* editFile({path, oldString, newString, replaceAll})
EditFile(meta, db, d, path, oldString, newString, replaceAll, writable) ==
    LET found == ToolGetFileHandle(meta, db, d, path)
        content == d[found.handle].content
        rep == Replacement(content, oldString, newString, replaceAll)
        written == WriteFile(meta, db, d, path, rep.text, writable)
        failed(status) == [status |-> status, disk |-> d, emitted |-> <<>>,
                           replacements |-> 0, content |-> <<>>, newContent |-> <<>>]
    IN  IF found.status = "invalid" THEN failed("Invalid path: empty path")
        ELSE IF found.status = "nofolder" THEN failed("Folder not found")
        ELSE IF found.handle = NoHandle THEN failed("File not found")
        ELSE IF ~rep.found THEN failed("String not found in file")
        ELSE IF written.status # "ok"
        THEN [status |-> written.status, disk |-> written.disk, emitted |-> <<>>,
              replacements |-> rep.count, content |-> content, newContent |-> rep.text]
        ELSE [status |-> "ok", disk |-> written.disk,
              emitted |-> Append(written.emitted, ChangeEvent("update", path)),
              replacements |-> rep.count, content |-> content, newContent |-> rep.text]

MaxLen == 2
MaxWrites == 1
MaxEdits == 1
MaxEditLen == 8

TextAlphabet == {"a", ".", "\n"}

\* every text of MaxLen characters at most
SmallTexts == UNION {[1..n -> TextAlphabet] : n \in 0..MaxLen}

\* the text of n lines of len characters each
LinesOf(n, len) ==
    [i \in 1..(n * (len + 1) - 1) |-> IF i % (len + 1) = 0 THEN "\n" ELSE "a"]

\* texts at readFile's limits: as many lines as the default limit and one
\* more, a line as long as a line is returned whole and one character longer
LongTexts ==
    {LinesOf(DefaultLimit, 0), LinesOf(DefaultLimit + 1, 0), LinesOf(DefaultLimit + 1, 1),
     LinesOf(1, MaxLineLength), LinesOf(2, MaxLineLength + 1)}

FooFoo == <<"f", "o", "o", " ", "f", "o", "o">>

OtherTexts == {FooFoo, <<"a", "a", "a">>, <<"→", "a", "\n">>}

FilePathX == <<"/", "f", "/", "x">>
FilePathY == <<"/", "f", "/", "y">>

\* the paths the tools are called with: a file, a file in a directory, image
\* names, the folder alone, a path through a file, an unknown folder, no path
FilePaths ==
    {FilePathX,
     <<"/", "f", "/", "d", "/", "x">>,
     <<"/", "f", "/", "x", ".", "p", "n", "g">>,
     <<"/", "f", "/", "x", ".", "P", "N", "G">>,
     <<"/", "f", "/", "x", ".", "a", "v", "i", "f">>,
     <<"/", "f">>,
     <<"/", "f", "/", "x", "/", "y">>,
     <<"/", "z", "/", "x">>,
     <<>>}

\* the folder "f" with the file "x"
FileDisk ==
    <<Entry("directory", <<"f">>, NoHandle, <<>>),
      Entry("file", <<"x">>, 1, FooFoo)>>

FileFolder == [id |-> FolderId(0, 1), name |-> <<"f">>, handle |-> 1, addedAt |-> 0]

\* the calls of writeFile and editFile made so far
Writes == IF result.op = "none" THEN 0 ELSE result.writes
Edits == IF result.op = "none" THEN 0 ELSE result.edits

FileInit ==
    /\ disk = FileDisk
    /\ trackedFolders = <<FileFolder>>
    /\ metadata = ProjectMetadata(trackedFolders)
    /\ idb = IdbOf(trackedFolders)
    /\ load = LoadRecord("done", metadata.items)
    /\ loading = FALSE
    /\ error = NoError
    /\ calls = [s \in Slots |-> IdleCall]
    /\ now = 1
    /\ removed = {}
    /\ listeners = <<>>
    /\ dispatch = NoDispatch
    /\ widget = NoWidget
    /\ result = NoResult

\* writeFile({path, content}) runs
FileWrite ==
    /\ Writes < MaxWrites
    /\ \E path \in FilePaths, content \in SmallTexts \cup OtherTexts \cup LongTexts,
          writable \in BOOLEAN :
          /\ content \in LongTexts => path = FilePathX
          /\ LET w == WriteFile(metadata, idb, disk, path, content, writable) IN
             /\ disk' = w.disk
             /\ result' = [op |-> "writeFile", path |-> path, content |-> content,
                           status |-> w.status, emitted |-> w.emitted,
                           writes |-> Writes + 1, edits |-> Edits]
    /\ UNCHANGED <<trackedFolders, loading, error, metadata, idb, calls, load,
                   now, widget, listeners, dispatch, removed>>

\* the writeFile that has just succeeded, for the read that follows it
JustWritten ==
    IF result.op = "writeFile" /\ result.status = "ok"
    THEN [ok |-> TRUE, path |-> result.path, content |-> result.content]
    ELSE [ok |-> FALSE, path |-> <<>>, content |-> <<>>]

\* readFile({path, offset, limit}) runs
FileRead ==
    /\ \E path \in FilePaths,
          window \in {<<Undefined, Undefined>>, <<Given(1), Given(1)>>,
                      <<Given(0 - 1), Undefined>>} :
          /\ path # FilePathX => window = <<Undefined, Undefined>>
          /\ result' = [op |-> "readFile", path |-> path,
                     offset |-> window[1], limit |-> window[2],
                     value |-> ReadFile(metadata, idb, disk, path, window[1], window[2]),
                     written |-> JustWritten,
                     writes |-> Writes, edits |-> Edits]
    /\ UNCHANGED <<trackedFolders, loading, error, metadata, idb, calls, load,
                   now, widget, listeners, dispatch, removed, disk>>

\* editFile({path, oldString, newString, replaceAll}) runs, on a short file
FileEdit ==
    /\ Edits < MaxEdits
    /\ \E path \in {FilePathX, FilePathY},
          oldString \in SmallTexts \cup {<<"f", "o", "o">>},
          newString \in {<<>>, <<"a", "a">>, <<"b", "a", "r">>},
          replaceAll \in BOOLEAN, writable \in BOOLEAN :
          LET h == ToolGetFileHandle(metadata, idb, disk, path).handle
              e == EditFile(metadata, idb, disk, path, oldString, newString,
                            replaceAll, writable)
          IN  /\ h # NoHandle => Len(disk[h].content) <= MaxEditLen
              /\ disk' = e.disk
              /\ result' = [op |-> "editFile", path |-> path, oldString |-> oldString,
                            newString |-> newString, replaceAll |-> replaceAll,
                            status |-> e.status, emitted |-> e.emitted,
                            replacements |-> e.replacements, content |-> e.content,
                            newContent |-> e.newContent,
                            writes |-> Writes, edits |-> Edits + 1]
    /\ UNCHANGED <<trackedFolders, loading, error, metadata, idb, calls, load,
                   now, widget, listeners, dispatch, removed>>

\* writeFile and readFile on the folder "f"
FileNext ==
    \/ FileWrite
    \/ FileRead

SpecFile == FileInit /\ [][FileNext]_vars

\* the folder "f" whose file "x" holds some short text
EditInit ==
    /\ \E text \in SmallTexts \cup OtherTexts :
          disk = [FileDisk EXCEPT ![2].content = text]
    /\ trackedFolders = <<FileFolder>>
    /\ metadata = ProjectMetadata(trackedFolders)
    /\ idb = IdbOf(trackedFolders)
    /\ load = LoadRecord("done", metadata.items)
    /\ loading = FALSE
    /\ error = NoError
    /\ calls = [s \in Slots |-> IdleCall]
    /\ now = 1
    /\ removed = {}
    /\ listeners = <<>>
    /\ dispatch = NoDispatch
    /\ widget = NoWidget
    /\ result = NoResult

\* editFile on the folder "f"
EditNext == FileEdit

SpecEdit == EditInit /\ [][EditNext]_vars

(***************************************************************************)
(* Claims about the file tools.                                            *)
(***************************************************************************)
\* a line of readFile's output without its line-number prefix: what follows
\* the first arrow
StripPrefix(line) ==
    LET at == {i \in DOMAIN line : line[i] = "→"} IN
    IF at = {} THEN line
    ELSE SubSeq(line, (CHOOSE i \in at : \A j \in at : i <= j) + 1, Len(line))

\* the text recovered from readFile's output
Recovered(output) ==
    LET lines == SplitLines(output) IN
    JoinLines([i \in DOMAIN lines |-> StripPrefix(lines[i])])

\* readFile(path), offset and limit left out, has run right after a
\* successful writeFile(path, content)
ReadAfterWrite ==
    /\ result.op = "readFile"
    /\ result.written.ok
    /\ result.written.path = result.path
    /\ ~result.offset.given /\ ~result.limit.given

ReadsBack ==
    /\ result.value.status = "ok"
    /\ ~result.value.isImage
    /\ Recovered(result.value.content) = result.written.content

\* C4 as stated: for every path, file name and content, writeFile(path,
\* content) followed by readFile(path) returns output from which content is
\* recovered exactly by stripping the line-number prefix of each line
C4_RoundTrip == ReadAfterWrite => ReadsBack

\* the name of the file a path designates
FileNameOf(path) ==
    LET parts == SplitPath(path) IN
    IF Len(parts) < 2 THEN UndefinedName ELSE parts[Len(parts)]

\* the content readFile returns in full: a text file by name and media type,
\* of DefaultLimit lines at most, none longer than MaxLineLength
WithinLimits(path, content) ==
    /\ ~IsImageFile(FileNameOf(path), FileType(FileNameOf(path)))
    /\ Cardinality({i \in DOMAIN content : content[i] = "\n"}) < DefaultLimit
    /\ \A i \in 1..(Len(content) - MaxLineLength) :
          \E j \in i..(i + MaxLineLength) : content[j] = "\n"

\* C4, amended: when writeFile(path, content) succeeds, the file is not an
\* image by extension or media type, content has 2000 lines at most and no
\* line of more than 2000 characters, readFile(path) with default offset and
\* limit returns output from which content is recovered exactly by stripping
\* the line-number prefix of each line
C4_RoundTripWithinLimits ==
    (ReadAfterWrite /\ WithinLimits(result.path, result.written.content)) => ReadsBack

\* a text of exactly 2000 lines, and one with a line of exactly 2000
\* characters, has been written and read back
C4_Witness ==
    /\ ReadAfterWrite
    /\ WithinLimits(result.path, result.written.content)
    /\ \/ result.value.lineCount = DefaultLimit
       \/ Len(result.written.content) = MaxLineLength

\* oldString occurs in content at index i (from 1)
OccursAt(content, oldString, i) ==
    /\ i >= 1 /\ i + Len(oldString) - 1 <= Len(content)
    /\ SubSeq(content, i, i + Len(oldString) - 1) = oldString

\* the occurrences found scanning from left to right, none overlapping the one
\* found before it
RECURSIVE Leftmost(_, _, _)
Leftmost(content, oldString, from) ==
    LET at == {i \in from..(Len(content) + 1) : OccursAt(content, oldString, i)}
        first == CHOOSE i \in at : \A j \in at : i <= j
    IN  IF at = {} THEN {}
        ELSE {first} \cup Leftmost(content, oldString, first + Max(Len(oldString), 1))

\* content from index i on, with newString in place of the occurrences at
RECURSIVE Spliced(_, _, _, _, _)
Spliced(content, at, width, newString, i) ==
    IF i > Len(content) + 1 THEN <<>>
    ELSE IF i \in at /\ width > 0
    THEN newString \o Spliced(content, at, width, newString, i + width)
    ELSE (IF i \in at THEN newString ELSE <<>>)
         \o (IF i <= Len(content) THEN <<content[i]>> ELSE <<>>)
         \o Spliced(content, at, width, newString, i + 1)

\* C5: editFile on a file that contains oldString, unless the write fails:
\* with replaceAll false it replaces the leftmost occurrence only and reports
\* 1; with replaceAll true it replaces every non-overlapping occurrence,
\* scanning left to right, and reports their number; the new content is what
\* the file holds afterwards
C5_EditReplaces ==
    (/\ result.op = "editFile"
     /\ result.status \notin {"Invalid path: empty path", "Folder not found",
                              "File not found", WriteFailed}
     /\ \E i \in 1..(Len(result.content) + 1) :
           OccursAt(result.content, result.oldString, i)) =>
        LET all == Leftmost(result.content, result.oldString, 1)
            at == IF result.replaceAll THEN all
                  ELSE {CHOOSE i \in all : \A j \in all : i <= j}
        IN  /\ result.status = "ok"
            /\ result.replacements = Cardinality(at)
            /\ result.newContent =
                  Spliced(result.content, at, Len(result.oldString), result.newString, 1)
            /\ disk[ToolGetFileHandle(metadata, idb, disk, result.path).handle].content
                  = result.newContent

\* "foo foo" edited with "foo" -> "bar": both occurrences replaced
C5_Witness ==
    /\ result.op = "editFile"
    /\ result.status = "ok"
    /\ result.replaceAll
    /\ result.content = FooFoo
    /\ result.oldString = <<"f", "o", "o">>
    /\ result.newString = <<"b", "a", "r">>
    /\ result.replacements = 2
    /\ result.newContent = <<"b", "a", "r", " ", "b", "a", "r">>

(***************************************************************************)
(* The search tools: globFiles and grepFiles.                              *)
(***************************************************************************)
\* one path segment against one pattern segment: "*" is any run of
\* characters, "?" any one character, any other character itself
RECURSIVE WildMatch(_, _)
WildMatch(str, pat) ==
    IF pat = <<>> THEN str = <<>>
    ELSE IF Head(pat) = "*"
    THEN WildMatch(str, Tail(pat)) \/ (str # <<>> /\ WildMatch(Tail(str), pat))
    ELSE /\ str # <<>>
         /\ Head(pat) = "?" \/ Head(pat) = Head(str)
         /\ WildMatch(Tail(str), Tail(pat))

\* a name that starts with a dot is matched by an explicit dot only
SegmentMatch(str, pat) ==
    /\ WildMatch(str, pat)
    /\ (str # <<>> /\ Head(str) = ".") => (pat # <<>> /\ Head(pat) = ".")

\* the segments of a path against those of a pattern: "**" is any number of
\* segments, none of them starting with a dot
RECURSIVE SegmentsMatch(_, _)
SegmentsMatch(strs, pats) ==
    IF pats = <<>> THEN strs = <<>>
    ELSE IF Head(pats) = <<"*", "*">>
    THEN \/ SegmentsMatch(strs, Tail(pats))
         \/ /\ strs # <<>>
            /\ Head(Head(strs)) # "."
            /\ SegmentsMatch(Tail(strs), pats)
    ELSE /\ strs # <<>>
         /\ SegmentMatch(Head(strs), Head(pats))
         /\ SegmentsMatch(Tail(strs), Tail(pats))

\* micromatch's isMatch(str, pattern) with its default options, for patterns
\* made of names, "*", "?" and "**"
IsMatch(str, pattern) == SegmentsMatch(SplitPath(str), SplitPath(pattern))

\* for every directory, the order in which values() yields its entries
Enumerations(d) ==
    LET dirs == {n \in DOMAIN d : d[n].kind = "directory"}
        all == UNION {Orders(Children(d, x)) : x \in dirs}
    IN  {e \in [dirs -> all] : \A x \in dirs : e[x] \in Orders(Children(d, x))}

\* entryRelativePath
RelativeTo(relativePath, name) ==
    IF relativePath = <<>> THEN name ELSE JoinPath(relativePath, name)

\* scanDirectory(dirHandle, basePath, relativePath), from the i-th entry
\* enumerated on: the paths pushed to results
RECURSIVE ScanDirectory(_, _, _, _, _, _, _)
ScanDirectory(d, enum, dir, i, basePath, relativePath, pattern) ==
    IF i > Len(enum[dir]) THEN <<>>
    ELSE LET entry == enum[dir][i]
             entryPath == JoinPath(basePath, d[entry].name)
             entryRelativePath == RelativeTo(relativePath, d[entry].name)
         IN  (IF d[entry].kind = "file"
              THEN (IF IsMatch(entryRelativePath, pattern) THEN <<entryPath>> ELSE <<>>)
              ELSE ScanDirectory(d, enum, entry, 1, entryPath, entryRelativePath, pattern))
             \o ScanDirectory(d, enum, dir, i + 1, basePath, relativePath, pattern)

\* a < b in the order of the UTF-16 code units
RECURSIVE CodeUnitsBefore(_, _)
CodeUnitsBefore(a, b) ==
    IF b = <<>> THEN FALSE
    ELSE IF a = <<>> THEN TRUE
    ELSE IF Code(Head(a)) # Code(Head(b)) THEN Code(Head(a)) < Code(Head(b))
    ELSE CodeUnitsBefore(Tail(a), Tail(b))

RECURSIVE InsertString(_, _)
InsertString(x, sorted) ==
    IF sorted = <<>> THEN <<x>>
    ELSE IF CodeUnitsBefore(x, Head(sorted)) THEN <<x>> \o sorted
    ELSE <<Head(sorted)>> \o InsertString(x, Tail(sorted))

RECURSIVE SortStringsFrom(_, _)
SortStringsFrom(strs, sorted) ==
    IF strs = <<>> THEN sorted
    ELSE SortStringsFrom(Tail(strs), InsertString(Head(strs), sorted))

AsPushed(strs) == strs

\* results.sort(): the default order, by code units
SortStrings(strs) == SortStringsFrom(strs, <<>>)

\* folderName?.replace(/^\//, "")
StripLeadingSlash(name) == IF name # <<>> /\ Head(name) = "/" THEN Tail(name) ELSE name

AllFolders(folders, folderName) == [i \in DOMAIN folders |-> i]

\* the indices of foldersToSearch in folders, for a folder name that may be
\* left out; an empty name selects every folder, as a name left out does
FoldersToSearch(folders, folderName) ==
    IF ~folderName.given \/ folderName.value = <<>> THEN [i \in DOMAIN folders |-> i]
    ELSE SelectSeqR([i \in DOMAIN folders |-> i],
                    {i \in DOMAIN folders : folders[i].name = folderName.value})

\* foldersToSearch of globFiles: the filter is matched once a leading slash
\* is stripped from it
GlobFolders(folders, folderName) ==
    FoldersToSearch(folders, IF folderName.given
                             THEN Given(StripLeadingSlash(folderName.value))
                             ELSE folderName)

\* foldersToSearch of grepFiles: the filter is matched as it is given
GrepFolders(folders, folderName) == FoldersToSearch(folders, folderName)

\* the directories of the folders picked
HandlesOf(folders, picked) == {folders[picked[k]].handle : k \in DOMAIN picked}

\* the loop over foldersToSearch from the k-th on, in globFiles
RECURSIVE ScanFolders(_, _, _, _, _, _)
ScanFolders(folders, picked, k, d, enum, pattern) ==
    IF k > Len(picked) THEN <<>>
    ELSE ScanDirectory(d, enum, folders[picked[k]].handle, 1,
                       <<"/">> \o folders[picked[k]].name, <<>>, pattern)
         \o ScanFolders(folders, picked, k + 1, d, enum, pattern)

\* the directories a search of the folders picked enumerates
RECURSIVE Under(_, _)
Under(d, dirs) ==
    LET more == {n \in DOMAIN d : d[n].kind = "directory" /\ d[n].parent \in dirs} IN
    IF more \subseteq dirs THEN dirs ELSE Under(d, dirs \cup more)

SearchedDirs(folders, picked, d) == Under(d, {folders[picked[k]].handle : k \in DOMAIN picked})

\* globFiles({pattern, folderName}): the sorted paths, or a rejection when the
\* enumeration of a directory it scans fails
GlobFiles(meta, db, d, pattern, folderName, enum, broken) ==
    LET folders == GetTrackedFolders(meta, db)
        picked == GlobFolders(folders, folderName)
    IN  IF broken \in SearchedDirs(folders, picked, d)
        THEN [status |-> "rejected", value |-> <<>>]
        ELSE [status |-> "ok",
              value |-> SortStrings(ScanFolders(folders, picked, 1, d, enum, pattern))]

FirstMatch(atoms, ignoreCase, line, i) ==
    LET at == {j \in i..(Len(line) + 1) : MatchesAt(atoms, ignoreCase, line, j)} IN
    IF at = {} THEN <<>> ELSE <<(CHOOSE j \in at : \A k \in at : j <= k) - 1>>

\* the indices (from 0) of the matches line.matchAll(regex) yields from
\* index i (from 1) on: after a match the search resumes behind it, one
\* character further when the match is empty
RECURSIVE MatchAll(_, _, _, _)
MatchAll(atoms, ignoreCase, line, i) ==
    IF i > Len(line) + 1 THEN <<>>
    ELSE IF MatchesAt(atoms, ignoreCase, line, i)
    THEN <<i - 1>> \o MatchAll(atoms, ignoreCase, line, i + Max(Len(atoms), 1))
    ELSE MatchAll(atoms, ignoreCase, line, i + 1)

GrepResult(path, lineNumber, line, column) ==
    [path |-> path, lineNumber |-> lineNumber, line |-> line, column |-> column]

\* lines.forEach from the k-th line on: one result per match
RECURSIVE SearchLines(_, _, _, _, _)
SearchLines(atoms, ignoreCase, entryPath, lines, k) ==
    IF k > Len(lines) THEN <<>>
    ELSE LET matches == MatchAll(atoms, ignoreCase, lines[k], 1) IN
         [m \in DOMAIN matches |-> GrepResult(entryPath, k, lines[k], matches[m])]
         \o SearchLines(atoms, ignoreCase, entryPath, lines, k + 1)

RECURSIVE SearchDirectory(_, _, _, _, _, _, _, _, _, _)

SearchDirectoryStopping(d, enum, dir, i, basePath, relativePath, filePattern, atoms, ignoreCase, unreadable) ==
    IF i > Len(enum[dir]) \/ enum[dir][i] = unreadable THEN <<>>
    ELSE LET entry == enum[dir][i]
             entryPath == JoinPath(basePath, d[entry].name)
             entryRelativePath == RelativeTo(relativePath, d[entry].name)
         IN  (IF d[entry].kind = "file"
              THEN (IF ~IsMatch(entryRelativePath, filePattern) THEN <<>>
                    ELSE SearchLines(atoms, ignoreCase, entryPath,
                                     SplitLines(d[entry].content), 1))
              ELSE SearchDirectory(d, enum, entry, 1, entryPath, entryRelativePath,
                                   filePattern, atoms, ignoreCase, unreadable))
             \o SearchDirectory(d, enum, dir, i + 1, basePath, relativePath,
                                filePattern, atoms, ignoreCase, unreadable)

\* searchDirectory(dirHandle, basePath, relativePath), from the i-th entry
\* enumerated on; the file unreadable cannot be read as text
SearchDirectory(d, enum, dir, i, basePath, relativePath, filePattern, atoms, ignoreCase, unreadable) ==
    IF i > Len(enum[dir]) THEN <<>>
    ELSE LET entry == enum[dir][i]
             entryPath == JoinPath(basePath, d[entry].name)
             entryRelativePath == RelativeTo(relativePath, d[entry].name)
         IN  (IF d[entry].kind = "file"
              THEN (IF ~IsMatch(entryRelativePath, filePattern) \/ entry = unreadable
                    THEN <<>>
                    ELSE SearchLines(atoms, ignoreCase, entryPath,
                                     SplitLines(d[entry].content), 1))
              ELSE SearchDirectory(d, enum, entry, 1, entryPath, entryRelativePath,
                                   filePattern, atoms, ignoreCase, unreadable))
             \o SearchDirectory(d, enum, dir, i + 1, basePath, relativePath,
                                filePattern, atoms, ignoreCase, unreadable)

\* the loop over foldersToSearch from the k-th on, in grepFiles
RECURSIVE SearchFolders(_, _, _, _, _, _, _, _, _)
SearchFolders(folders, picked, k, d, enum, filePattern, atoms, ignoreCase, unreadable) ==
    IF k > Len(picked) THEN <<>>
    ELSE SearchDirectory(d, enum, folders[picked[k]].handle, 1,
                         <<"/">> \o folders[picked[k]].name, <<>>,
                         filePattern, atoms, ignoreCase, unreadable)
         \o SearchFolders(folders, picked, k + 1, d, enum, filePattern, atoms,
                          ignoreCase, unreadable)

\* new RegExp(pattern, flags) throws a SyntaxError: here, for a group that
\* opens and never closes
InvalidRegExp(pattern) == "(" \in Range(pattern)

AnyFile == <<"*", "*", "/", "*">>

\* grepFiles({pattern, folderName, filePattern, ignoreCase})
GrepFiles(meta, db, d, pattern, folderName, filePattern, ignoreCase, enum, broken, unreadable) ==
    LET folders == GetTrackedFolders(meta, db)
        picked == GrepFolders(folders, folderName)
    IN  IF picked = <<>> THEN [status |-> "ok", value |-> <<>>]
        ELSE IF InvalidRegExp(pattern) THEN [status |-> "SyntaxError", value |-> <<>>]
        ELSE IF broken \in SearchedDirs(folders, picked, d)
        THEN [status |-> "rejected", value |-> <<>>]
        ELSE [status |-> "ok",
              value |-> SearchFolders(folders, picked, 1, d, enum,
                                      IF filePattern.given THEN filePattern.value ELSE AnyFile,
                                      Atoms(pattern), IF ignoreCase.given THEN ignoreCase.value ELSE FALSE,
                                      unreadable)]

\* the folders "f" and "g": f holds a.ts, .x and the directory b with c.ts
\* and d.txt; g holds a.ts
SearchDisk ==
    <<Entry("directory", <<"f">>, NoHandle, <<>>),
      Entry("directory", <<"g">>, NoHandle, <<>>),
      Entry("file", <<"a", ".", "t", "s">>, 1,
            <<"F", "o", "o", " ", "b", "a", "r", "\n", "b", "a", "z", " ", "f", "o", "o", "\n">>),
      Entry("directory", <<"b">>, 1, <<>>),
      Entry("file", <<"c", ".", "t", "s">>, 4, <<"o", "o", "o">>),
      Entry("file", <<"d", ".", "t", "x", "t">>, 4, <<"f", "o", "o">>),
      Entry("file", <<".", "x">>, 1, <<"f", "o", "o">>),
      Entry("file", <<"a", ".", "t", "s">>, 2, <<"o", "\n", "O">>)>>

SearchRegistries ==
    {<<>>,
     <<TreeFolder(SearchDisk, 1, 1)>>,
     <<TreeFolder(SearchDisk, 1, 1), TreeFolder(SearchDisk, 2, 2)>>,
     <<TreeFolder(SearchDisk, 1, 2), TreeFolder(SearchDisk, 2, 1)>>}

SearchInit ==
    /\ disk = SearchDisk
    /\ trackedFolders \in SearchRegistries
    /\ metadata = ProjectMetadata(trackedFolders)
    /\ idb = IdbOf(trackedFolders)
    /\ load = LoadRecord("done", metadata.items)
    /\ loading = FALSE
    /\ error = NoError
    /\ calls = [s \in Slots |-> IdleCall]
    /\ now = 1
    /\ removed = {}
    /\ listeners = <<>>
    /\ dispatch = NoDispatch
    /\ widget = NoWidget
    /\ result = NoResult

GlobPatterns ==
    {<<"*", "*", "/", "*", ".", "t", "s">>, <<"*", ".", "t", "s">>, <<"*">>, AnyFile,
     <<"b", "/", "*">>, <<"*", "*">>, <<"a", ".", "t", "s">>, <<"?", ".", "t", "s">>,
     <<".", "*">>}

FolderNames ==
    {Undefined, Given(<<"f">>), Given(<<"/", "f">>), Given(<<"g">>), Given(<<"z">>),
     Given(<<>>), Given(<<"/">>)}

\* a directory whose enumeration fails, a file that cannot be read: none, or one
BrokenDirs == {NoHandle, 4}
UnreadableFiles == {NoHandle, 5}

\* globFiles runs, once: it changes nothing
SearchGlob ==
    /\ result.op = "none"
    /\ \E pattern \in GlobPatterns, folderName \in FolderNames,
          enum \in Enumerations(disk), broken \in BrokenDirs :
          LET g == GlobFiles(metadata, idb, disk, pattern, folderName, enum, broken) IN
          result' = [op |-> "globFiles", pattern |-> pattern, folderName |-> folderName,
                     enum |-> enum, broken |-> broken, status |-> g.status,
                     value |-> g.value,
                     walked |-> LET folders == GetTrackedFolders(metadata, idb) IN
                                HandlesOf(folders, GlobFolders(folders, folderName))]
    /\ UNCHANGED <<trackedFolders, loading, error, metadata, idb, calls, load,
                   now, widget, listeners, dispatch, removed, disk>>

GrepPatterns == {<<"f", "o", "o">>, <<"o">>, <<"o", "o">>, <<".">>, <<>>, <<"(">>}

\* grepFiles runs, once: it changes nothing
SearchGrep ==
    /\ result.op = "none"
    /\ \E pattern \in GrepPatterns, folderName \in FolderNames,
          filePattern \in {Undefined, Given(<<"*", ".", "t", "s">>), Given(<<"b", "/", "*">>)},
          ignoreCase \in {Undefined, Given(TRUE)},
          enum \in Enumerations(disk), broken \in BrokenDirs, unreadable \in UnreadableFiles :
          LET g == GrepFiles(metadata, idb, disk, pattern, folderName, filePattern,
                             ignoreCase, enum, broken, unreadable)
          IN  result' = [op |-> "grepFiles", pattern |-> pattern, folderName |-> folderName,
                         filePattern |-> filePattern, ignoreCase |-> ignoreCase,
                         enum |-> enum, broken |-> broken, unreadable |-> unreadable,
                         status |-> g.status, value |-> g.value,
                         walked |-> LET folders == GetTrackedFolders(metadata, idb) IN
                                    HandlesOf(folders, GrepFolders(folders, folderName))]
    /\ UNCHANGED <<trackedFolders, loading, error, metadata, idb, calls, load,
                   now, widget, listeners, dispatch, removed, disk>>

SearchNext ==
    \/ SearchGlob
    \/ SearchGrep

SpecSearch == SearchInit /\ [][SearchNext]_vars

(***************************************************************************)
(* Claims about the search tools.                                          *)
(***************************************************************************)
\* the directories the folder name of the last call selects: every tracked
\* folder when it is left out, else the tracked folders of that name
SelectedRoots(name) ==
    LET folders == GetTrackedFolders(metadata, idb) IN
    {folders[i].handle : i \in {j \in DOMAIN folders :
                                   ~name.given \/ name.value = <<>>
                                   \/ folders[j].name = name.value}}

\* the tracked directory a node lies in, and its path from there
RECURSIVE RootOf(_, _)
RootOf(d, n) == IF d[n].parent = NoHandle THEN n ELSE RootOf(d, d[n].parent)

RECURSIVE RelativePathOf(_, _)
RelativePathOf(d, n) ==
    IF d[d[n].parent].parent = NoHandle THEN d[n].name
    ELSE JoinPath(RelativePathOf(d, d[n].parent), d[n].name)

\* the files, at any depth, of the selected folders whose relative path
\* matches a pattern
FilesMatching(name, pattern) ==
    {n \in DOMAIN disk :
        /\ disk[n].kind = "file"
        /\ RootOf(disk, n) \in SelectedRoots(name)
        /\ IsMatch(RelativePathOf(disk, n), pattern)}

\* C6: globFiles(pattern, folderName?) returns exactly the paths
\* '/<folder>/<relative path>' of all files, at any depth of the selected
\* folders, whose path relative to the folder root matches pattern, sorted
\* ascending by string comparison
C6_GlobExactSorted ==
    (result.op = "globFiles" /\ result.status = "ok") =>
        LET name == IF result.folderName.given
                    THEN Given(StripLeadingSlash(result.folderName.value))
                    ELSE result.folderName
            expected == {PathOf(disk, n) : n \in FilesMatching(name, result.pattern)}
        IN  /\ Range(result.value) = expected
            /\ Len(result.value) = Cardinality(expected)
            /\ \A i, j \in DOMAIN result.value :
                  i < j => CodeUnitLeq(result.value[i], result.value[j])

\* glob("**/*.ts") over the folder holding a.ts, b/c.ts and b/d.txt, whose
\* directory b is enumerated before a.ts
C6_Witness ==
    /\ result.op = "globFiles"
    /\ result.pattern = <<"*", "*", "/", "*", ".", "t", "s">>
    /\ result.folderName = Given(<<"f">>)
    /\ result.enum[1][1] = 4
    /\ result.value = <<<<"/", "f", "/", "a", ".", "t", "s">>,
                        <<"/", "f", "/", "b", "/", "c", ".", "t", "s">>>>

\* the pattern, one character per character of the line, matches at index i
PatternAt(line, pattern, ignoreCase, i) ==
    /\ i + Len(pattern) - 1 <= Len(line)
    /\ \A k \in DOMAIN pattern :
          \/ pattern[k] = "." /\ line[i + k - 1] # "\n"
          \/ pattern[k] = line[i + k - 1]
          \/ ignoreCase /\ Lower(pattern[k]) = Lower(line[i + k - 1])

\* the columns (from 0) of the match occurrences in a line: the leftmost,
\* then the leftmost behind it, and so on
RECURSIVE Occurrences(_, _, _, _)
Occurrences(line, pattern, ignoreCase, from) ==
    LET at == {i \in from..(Len(line) + 1) : PatternAt(line, pattern, ignoreCase, i)}
        first == CHOOSE i \in at : \A j \in at : i <= j
    IN  IF at = {} THEN {}
        ELSE {first - 1}
             \cup Occurrences(line, pattern, ignoreCase, first + Max(Len(pattern), 1))

\* C7: grepFiles emits exactly one result per match occurrence (not one per
\* line) in every readable file that passes filePattern, each with the file's
\* virtual path, the 1-based line number, the full line and the 0-based start
\* column of the match; with ignoreCase true matches are case-insensitive
C7_GrepOnePerMatch ==
    (result.op = "grepFiles" /\ result.status = "ok") =>
        LET files == FilesMatching(result.folderName,
                        IF result.filePattern.given THEN result.filePattern.value
                        ELSE AnyFile) \ {result.unreadable}
            ignoreCase == result.ignoreCase.given /\ result.ignoreCase.value
            expected ==
                UNION {UNION {{GrepResult(PathOf(disk, n), k,
                                          SplitLines(disk[n].content)[k], c) :
                                 c \in Occurrences(SplitLines(disk[n].content)[k],
                                                   result.pattern, ignoreCase, 1)} :
                              k \in DOMAIN SplitLines(disk[n].content)} :
                       n \in files}
        IN  /\ Range(result.value) = expected
            /\ Len(result.value) = Cardinality(expected)

\* grep("foo", ignoreCase: true) over the file "Foo bar\nbaz foo\n": line 1
\* column 0 and line 2 column 4
C7_Witness ==
    /\ result.op = "grepFiles"
    /\ result.pattern = <<"f", "o", "o">>
    /\ result.ignoreCase = Given(TRUE)
    /\ result.folderName = Given(<<"f">>)
    /\ result.filePattern = Given(<<"*", ".", "t", "s">>)
    /\ Len(result.value) = 2
    /\ result.value[1].lineNumber = 1 /\ result.value[1].column = 0
    /\ result.value[2].lineNumber = 2 /\ result.value[2].column = 4

\* the folder filter a call applies: globFiles strips one leading slash
FilterOf(r) ==
    IF r.op = "globFiles" /\ r.folderName.given
    THEN Given(StripLeadingSlash(r.folderName.value))
    ELSE r.folderName

\* no tracked folder has the name the filter gives
MatchesNoFolder(name) ==
    LET folders == GetTrackedFolders(metadata, idb) IN
    name.given /\ \A i \in DOMAIN folders : folders[i].name # name.value

Searched(r) == r.op \in {"globFiles", "grepFiles"}

\* C15 as stated: globFiles and grepFiles called with a folder filter that
\* matches no tracked folder return an empty result and raise no error
C15_NoFolderNoResult ==
    (Searched(result) /\ MatchesNoFolder(FilterOf(result))) =>
        result.status = "ok" /\ result.value = <<>>

\* C15, amended: globFiles and grepFiles called with a folder filter that is
\* not empty (for globFiles, once a leading slash is stripped) and matches
\* no tracked folder return an empty result and raise no error, whatever
\* the pattern is
C15_NamedNoFolderNoResult ==
    (/\ Searched(result)
     /\ MatchesNoFolder(FilterOf(result))
     /\ FilterOf(result).value # <<>>) =>
        result.status = "ok" /\ result.value = <<>>

\* grepFiles was called for "o" with the filter "/f" while the folder "f",
\* whose files hold an "o", was tracked
C15_Witness ==
    /\ result.op = "grepFiles"
    /\ result.folderName = Given(<<"/", "f">>)
    /\ result.pattern = <<"o">>
    /\ result.filePattern = Undefined
    /\ result.broken = NoHandle /\ result.unreadable = NoHandle
    /\ \E i \in DOMAIN trackedFolders : trackedFolders[i].name = <<"f">>
    /\ result.value = <<>>

\* C16: grepFiles called with a pattern that is not a valid regular
\* expression fails with an error, in every state of the registry and for
\* every folder filter
C16_InvalidPatternFails ==
    (result.op = "grepFiles" /\ InvalidRegExp(result.pattern)) =>
        result.status = "SyntaxError"

\* the files a grepFiles call reads: those of the selected folders that
\* pass filePattern
FilesRead(r) ==
    FilesMatching(r.folderName, IF r.filePattern.given THEN r.filePattern.value ELSE AnyFile)

\* the results a file contributes when it is read
MatchesOf(r, n) ==
    LET lines == SplitLines(disk[n].content) IN
    UNION {{GrepResult(PathOf(disk, n), k, lines[k], c) :
              c \in Occurrences(lines[k], r.pattern,
                                r.ignoreCase.given /\ r.ignoreCase.value, 1)} :
           k \in DOMAIN lines}

\* C17: when a file grepFiles has to read cannot be read, the call still
\* completes, returns nothing for that file and returns every match of
\* every other file that passes filePattern, those enumerated after the
\* failing one included
C17_UnreadableFileSkipped ==
    (/\ result.op = "grepFiles"
     /\ result.unreadable \in FilesRead(result)
     /\ ~InvalidRegExp(result.pattern)
     /\ result.broken = NoHandle) =>
        /\ result.status = "ok"
        /\ \A i \in DOMAIN result.value :
              result.value[i].path # PathOf(disk, result.unreadable)
        /\ \A n \in FilesRead(result) \ {result.unreadable} :
              MatchesOf(result, n) \subseteq Range(result.value)

\* grep("o") over the folder "f": b/c.ts cannot be read and is enumerated
\* first in b, before b/d.txt, and b before a.ts; the matches of both other
\* files are returned
C17_Witness ==
    /\ result.op = "grepFiles"
    /\ result.pattern = <<"o">>
    /\ result.folderName = Given(<<"f">>)
    /\ result.filePattern = Undefined
    /\ result.unreadable = 5
    /\ result.broken = NoHandle
    /\ result.enum[4][1] = 5
    /\ result.enum[1][1] = 4
    /\ \E i, j \in DOMAIN result.value :
          /\ result.value[i].path = PathOf(disk, 6)
          /\ result.value[j].path = PathOf(disk, 3)

\* the files a call finds outside the directory whose enumeration fails
FilesBeside(r) ==
    {n \in FilesMatching(FilterOf(r),
                         IF r.op = "globFiles" THEN r.pattern
                         ELSE IF r.filePattern.given THEN r.filePattern.value ELSE AnyFile) :
        ~IsBelow(disk, n, r.broken)}

\* C18: when the enumeration of one sub-directory of a searched folder fails
\* during a glob or grep walk, the call still returns the results of the entries beside that
\* sub-directory and of the other folders
C18_SiblingResultsKept ==
    (/\ Searched(result)
     /\ result.broken # NoHandle
     /\ RootOf(disk, result.broken) \in SelectedRoots(FilterOf(result))
     /\ result.op = "grepFiles" => ~InvalidRegExp(result.pattern)) =>
        /\ result.status = "ok"
        /\ \A n \in FilesBeside(result) :
              \E i \in DOMAIN result.value :
                 IF result.op = "globFiles" THEN result.value[i] = PathOf(disk, n)
                 ELSE MatchesOf(result, n) # {} => result.value[i].path = PathOf(disk, n)

(***************************************************************************)
(* The change emitter: the FileSystemEventEmitter singleton, an            *)
(* EventTarget.  The callbacks are the subscribers' code: while one runs   *)
(* it may subscribe and call unsubscribe handles.                          *)
(***************************************************************************)
MaxSubscriptions == 3
MaxEmits == 2

\* FileSystemChangeType
EventTypes == {"create", "update", "delete"}

EventPaths == {<<"/", "f", "/", "x">>, <<"/", "g">>}

\* the functions given to onChange
Callbacks == {"refresh", "record"}

\* the detail of the CustomEvent built by emitChange
Detail(type, path, timestamp) == [type |-> type, path |-> path, timestamp |-> timestamp]

\* the handler closure the h-th onChange call creates around its callback
Handler(h, callback) == [handler |-> h, callback |-> callback]

\* addEventListener("fileSystemChange", handler): a listener already in the
\* list is not added again
AddEventListener(ls, handler) == IF handler \in Range(ls) THEN ls ELSE Append(ls, handler)

RemoveListenersOfCallback(ls, h) ==
    SelectSeqR(ls, {l \in Range(ls) :
                      \A m \in Range(ls) : m.handler = h => l.callback # m.callback})

\* removeEventListener("fileSystemChange", handler), handler being the
\* closure of the h-th onChange call
RemoveEventListener(ls, h) == SelectSeqR(ls, {l \in Range(ls) : l.handler # h})

\* the listeners of a dispatch that are still to be invoked: dispatchEvent
\* walks a copy of the list and passes over a listener removed meanwhile
RECURSIVE NextLive(_, _)
NextLive(pending, ls) ==
    IF pending = <<>> THEN <<>>
    ELSE IF Head(pending) \in Range(ls) THEN pending
    ELSE NextLive(Tail(pending), ls)

\* history of the emitter: the onChange calls and the emitChange calls
NoEvents == [op |-> "events", subs |-> <<>>, emits |-> <<>>]

EventsInit ==
    /\ disk = RegDisk
    /\ trackedFolders = <<>>
    /\ metadata = NoMetadata
    /\ idb = EmptyIdb
    /\ load = LoadRecord("done", <<>>)
    /\ loading = FALSE
    /\ error = NoError
    /\ calls = [s \in Slots |-> IdleCall]
    /\ now = 1
    /\ removed = {}
    /\ listeners = <<>>
    /\ dispatch = NoDispatch
    /\ widget = NoWidget
    /\ result = NoEvents

\* the subscribers' code runs: between two emitChange calls, or inside a
\* callback that a dispatch has invoked
ClientRuns == IF dispatch.active THEN dispatch.running ELSE TRUE

\* the subscriptions whose unsubscribe handle was never called
ActiveSubscriptions(subs) == {h \in DOMAIN subs : subs[h].cleaned = 0}

\* onChange(callback)
EventsOnChange ==
    /\ ClientRuns
    /\ Len(result.subs) < MaxSubscriptions
    /\ \E callback \in Callbacks :
          LET h == Len(result.subs) + 1 IN
          /\ listeners' = AddEventListener(listeners, Handler(h, callback))
          /\ result' = [result EXCEPT
                !.subs = Append(@, [callback |-> callback, cleaned |-> 0,
                                    since |-> Len(result.emits)])]
    /\ UNCHANGED <<trackedFolders, loading, error, metadata, idb, calls, load,
                   now, widget, removed, disk, dispatch>>

\* the cleanup function returned by the h-th onChange call is called, for
\* the first or the second time
EventsUnsubscribe ==
    /\ ClientRuns
    /\ \E h \in DOMAIN result.subs :
          /\ result.subs[h].cleaned < 2
          /\ listeners' = RemoveEventListener(listeners, h)
          /\ result' = [result EXCEPT
                !.subs[h].cleaned = @ + 1,
                !.emits = IF dispatch.active
                             /\ \E l \in Range(NextLive(dispatch.pending, listeners)) :
                                    l.handler = h
                          THEN [@ EXCEPT ![Len(@)].dropped = @ \cup {h}]
                          ELSE @]
    /\ UNCHANGED <<trackedFolders, loading, error, metadata, idb, calls, load,
                   now, widget, removed, disk, dispatch>>

\* emitChange(type, path) is called: the event is built and dispatchEvent
\* starts on a copy of the listener list
EventsEmitChange ==
    /\ ~dispatch.active
    /\ Len(result.emits) < MaxEmits
    /\ \E type \in EventTypes, path \in EventPaths :
          /\ dispatch' = [active |-> TRUE, running |-> FALSE,
                          detail |-> Detail(type, path, now), pending |-> listeners]
          /\ result' = [result EXCEPT
                !.emits = Append(@, [type |-> type, path |-> path,
                                     active |-> ActiveSubscriptions(result.subs),
                                     dropped |-> {}, got |-> <<>>, returned |-> FALSE])]
    /\ UNCHANGED <<trackedFolders, loading, error, metadata, idb, calls, load,
                   now, widget, removed, disk, listeners>>

\* dispatchEvent invokes the next listener that is still in the list: the
\* handler calls its callback with event.detail
EventsInvoke ==
    /\ dispatch.active
    /\ NextLive(dispatch.pending, listeners) # <<>>
    /\ LET live == NextLive(dispatch.pending, listeners) IN
       /\ dispatch' = [dispatch EXCEPT !.pending = Tail(live), !.running = TRUE]
       /\ result' = [result EXCEPT
             !.emits[Len(result.emits)].got =
                 Append(@, [handler |-> Head(live).handler,
                            callback |-> Head(live).callback,
                            detail |-> dispatch.detail])]
    /\ UNCHANGED <<trackedFolders, loading, error, metadata, idb, calls, load,
                   now, widget, removed, disk, listeners>>

\* no listener is left: dispatchEvent and emitChange return
EventsReturn ==
    /\ dispatch.active
    /\ NextLive(dispatch.pending, listeners) = <<>>
    /\ dispatch' = NoDispatch
    /\ result' = [result EXCEPT !.emits[Len(result.emits)].returned = TRUE]
    /\ UNCHANGED <<trackedFolders, loading, error, metadata, idb, calls, load,
                   now, widget, removed, disk, listeners>>

EventsNext ==
    \/ EventsOnChange
    \/ EventsUnsubscribe
    \/ EventsEmitChange
    \/ EventsInvoke
    \/ EventsReturn

SpecEvents == EventsInit /\ [][EventsNext]_vars

(***************************************************************************)
(* Claims about the change emitter.                                        *)
(***************************************************************************)
\* the subscriptions an emitChange call has delivered its event to
Reached(e) == {e.got[i].handler : i \in DOMAIN e.got}

\* every delivery of an emitChange call carries its type and path, goes to
\* the callback of its subscription, once, and is made before the call
\* returns; the subscriptions reached are those of the set due
DeliversTo(e, k, due) ==
    /\ \A i \in DOMAIN e.got :
          /\ e.got[i].detail.type = e.type
          /\ e.got[i].detail.path = e.path
          /\ e.got[i].callback = result.subs[e.got[i].handler].callback
    /\ \A i, j \in DOMAIN e.got : i # j => e.got[i].handler # e.got[j].handler
    /\ Reached(e) \subseteq due
    /\ e.returned => Reached(e) = due
    /\ ~e.returned => k = Len(result.emits) /\ dispatch.active

\* C19 as stated: each emitChange(type, path) call delivers one event with
\* that type and path, before it returns, to exactly the subscriptions
\* active at the time of the call
C19_DeliversToActiveAtCall ==
    \A k \in DOMAIN result.emits :
        DeliversTo(result.emits[k], k, result.emits[k].active)

\* C19, amended: each emitChange(type, path) call delivers one event with
\* that type and path, before it returns, to exactly the subscriptions that
\* are active at the time of the call and whose unsubscribe handle is not
\* called, by a callback invoked earlier in the same dispatch, before their
\* turn; a subscription unsubscribed before the call (once or twice) and one
\* made after the call receive nothing, and an unsubscribe handle removes
\* its own subscription only
C19_DeliversToStillActive ==
    \A k \in DOMAIN result.emits :
        DeliversTo(result.emits[k], k, result.emits[k].active \ result.emits[k].dropped)

\* an emitChange call has returned after reaching a subscription, while
\* another subscription of the same callback had been unsubscribed twice
\* before the call, and a third was made after the call
C19_Witness ==
    \E k \in DOMAIN result.emits, h1, h2, h3 \in DOMAIN result.subs :
        /\ result.emits[k].returned
        /\ result.subs[h1].cleaned = 2 /\ h1 \notin result.emits[k].active
        /\ result.subs[h1].since < k
        /\ result.subs[h2].callback = result.subs[h1].callback
        /\ h2 \in Reached(result.emits[k])
        /\ result.subs[h3].since >= k
        /\ h3 \notin Reached(result.emits[k])

(***************************************************************************)
(* The resolvers over a registry that holds two folders of one name: the   *)
(* hook resolves in its in-memory list, the tools in what getTrackedFolders *)
(* reads from localStorage and IndexedDB.                                   *)
(***************************************************************************)
\* two directories named "a", each holding a file "x"
NamesakeDisk ==
    <<Entry("directory", <<"a">>, NoHandle, <<>>),
      Entry("directory", <<"a">>, NoHandle, <<>>),
      Entry("file", <<"x">>, 1, <<>>),
      Entry("file", <<"x">>, 2, <<>>)>>

NamesakePath == <<"/", "a">>
NamesakeFile == <<"/", "a", "/", "x">>

\* an earlier session added both directories; the hook mounts
ResolveInit ==
    /\ disk = NamesakeDisk
    /\ metadata = ProjectMetadata(<<TreeFolder(NamesakeDisk, 1, 1),
                                    TreeFolder(NamesakeDisk, 2, 2)>>)
    /\ idb = IdbOf(<<TreeFolder(NamesakeDisk, 1, 1), TreeFolder(NamesakeDisk, 2, 2)>>)
    /\ load = LoadStarted(metadata)
    /\ trackedFolders = <<>>
    /\ loading = TRUE
    /\ error = NoError
    /\ calls = [s \in Slots |-> IdleCall]
    /\ now = 1
    /\ removed = {}
    /\ listeners = <<>>
    /\ dispatch = NoDispatch
    /\ widget = NoWidget
    /\ result = NoResult

\* getHandleFromPath("/a/x"), expandDirectory("/a") up to its enumeration
\* and the tools' getFileHandle("/a/x") run: they change nothing
ResolveRead ==
    /\ result' = [op |-> "resolve", folders |-> trackedFolders, atRest |-> RegistryAtRest,
                  hook |-> GetHandleFromPath(trackedFolders, disk, NamesakeFile).handle,
                  expand |-> ExpandTarget(trackedFolders, disk, NamesakePath),
                  tool |-> ToolGetFileHandle(metadata, idb, disk, NamesakeFile)]
    /\ UNCHANGED <<trackedFolders, loading, error, metadata, idb, calls, load,
                   now, widget, listeners, dispatch, removed, disk>>

\* writeFile({path: "/a/x", content: "z"}) runs
ResolveWrite ==
    /\ LET w == WriteFile(metadata, idb, disk, NamesakeFile, <<"z">>, TRUE) IN
       /\ disk' = w.disk
       /\ result' = [op |-> "write", folders |-> trackedFolders, atRest |-> RegistryAtRest,
                     status |-> w.status,
                     written |-> {n \in DOMAIN w.disk :
                                     n \notin DOMAIN disk \/ w.disk[n] # disk[n]}]
    /\ UNCHANGED <<trackedFolders, loading, error, metadata, idb, calls, load,
                   now, widget, listeners, dispatch, removed>>

ResolveNext ==
    \/ LoadGet
    \/ LoadGetFail
    \/ LoadQuery
    \/ \E s \in Slots, id \in RemovableIds : RemoveStart(s, id)
    \/ \E s \in Slots : RemoveDelete(s)
    \/ \E s \in Slots : RemoveFail(s)
    \/ \E s \in Slots : RemoveDone(s)
    \/ ResolveRead
    \/ ResolveWrite

SpecResolve == ResolveInit /\ [][ResolveNext]_vars

\* the directory of the first folder named "a" in a list, in registration
\* order
FirstNamesake(folders) == folders[FindByName(folders, <<"a">>)].handle

\* the permission queries of the load were the platform's own method, or
\* the handles had none
PlatformQueries == \A i \in DOMAIN load.log : load.log[i].kind # "function"

\* C23: when several tracked folders have the name of the first path
\* segment, getHandleFromPath, expandDirectory, the tools' getFileHandle and
\* writeFile all resolve in the same folder, the first of that name in
\* registration order (checked for calls made with no registry operation in
\* progress)
C23_ResolversAgree ==
    (/\ result.op \in {"resolve", "write"}
     /\ result.atRest
     /\ PlatformQueries
     /\ FindByName(result.folders, <<"a">>) # 0) =>
        /\ result.op = "resolve" =>
              /\ result.hook # NoHandle
              /\ RootOf(disk, result.hook) = FirstNamesake(result.folders)
              /\ result.expand = FirstNamesake(result.folders)
              /\ result.tool.status = "ok"
              /\ result.tool.handle # NoHandle
              /\ RootOf(disk, result.tool.handle) = FirstNamesake(result.folders)
        /\ result.op = "write" =>
              /\ result.status = "ok"
              /\ \A n \in result.written : RootOf(disk, n) = FirstNamesake(result.folders)

\* C24: for every folder filter (absent, a folder name, a name written with
\* a leading '/'), grepFiles walks the same set of tracked folders that
\* globFiles selects for that filter
C24_GrepWalksGlobFolders ==
    (/\ result.op = "grepFiles"
     /\ result.folderName.given => StripLeadingSlash(result.folderName.value) # <<>>) =>
        LET folders == GetTrackedFolders(metadata, idb) IN
        result.walked = HandlesOf(folders, GlobFolders(folders, result.folderName))

\* C26: the capability store and the metadata store are read only by the
\* registry's load routine; the tools obtain the folder set from the
\* registry's in-memory list, so a tool finds a folder of the name in the
\* path exactly when the list holds one
C26_ToolsUseRegistryList ==
    /\ result.op = "resolve" =>
          (result.tool.status = "nofolder" <=> FindByName(result.folders, <<"a">>) = 0)
    /\ result.op = "write" =>
          (result.status = "ok" => FindByName(result.folders, <<"a">>) # 0)

\* the file a path names for the tools, NoHandle when there is none
FileAt(d, path) ==
    LET f == ToolGetFileHandle(metadata, idb, d, path) IN
    IF f.status = "ok" THEN f.handle ELSE NoHandle

\* C27: writeFile notifies only after mutating: a write that succeeds has
\* emitted exactly one change event for its path, once the content is in the
\* file, of kind 'create' if the file did not exist before the write and
\* 'update' if it did; a write that fails has emitted no event
C27_WriteThenNotify ==
    [][(result' # result /\ result'.op = "writeFile") =>
          IF result'.status = "ok"
          THEN /\ FileAt(disk', result'.path) # NoHandle
               /\ disk'[FileAt(disk', result'.path)].content = result'.content
               /\ result'.emitted =
                     <<[type |-> IF FileAt(disk, result'.path) # NoHandle
                                 THEN "update" ELSE "create",
                        path |-> result'.path]>>
          ELSE result'.emitted = <<>>]_vars

\* a write has created a file and emitted 'create', where the folder held
\* one file before
C27_Witness ==
    /\ result.op = "writeFile"
    /\ result.status = "ok"
    /\ result.emitted = <<[type |-> "create", path |-> result.path]>>
    /\ Len(disk) > Len(FileDisk)

\* C28: in every state with no add or remove in progress, every key held in
\* the capability store has a metadata record with the same id
C28_NoOrphanedCapability ==
    (\A s \in Slots : calls[s].op \in {"idle", "done"}) =>
        \A id \in DOMAIN idb :
            idb[id] # NoHandle => \E i \in DOMAIN metadata.items : metadata.items[i].id = id

(***************************************************************************)
(* The tree widget: one FileTreeNodeComponent per rendered directory node, *)
(* over the nodes getFileTree and expandDirectory return.                  *)
(***************************************************************************)

\* handleToggle calls that load, per mounted component
MaxLoads == 2

\* the folder "a": an empty directory e, and a directory d that holds the
\* file x and the empty directory s
WidgetDisk ==
    <<Entry("directory", <<"a">>, NoHandle, <<>>),
      Entry("directory", <<"e">>, 1, <<>>),
      Entry("directory", <<"d">>, 1, <<>>),
      Entry("file", <<"x">>, 3, <<"o">>),
      Entry("directory", <<"s">>, 3, <<>>)>>

\* useState(node.expanded ?? false), useState(node.children ?? []),
\* useState(false); loads, loaded and reloads are history: the onExpand calls
\* this component has made, those that have returned, and those made after
\* one had returned
Mounted(node) ==
    [expanded |-> node.expanded, children |-> node.children, loading |-> FALSE,
     pending |-> 0, loads |-> 0, loaded |-> 0, reloads |-> 0]

\* the directory nodes among nodes, by path
DirectoriesIn(nodes) == {nodes[i].path : i \in {j \in DOMAIN nodes : nodes[j].type = "directory"}}

NodeAt(nodes, path) == nodes[CHOOSE i \in DOMAIN nodes : nodes[i].path = path]

\* children.map(child => <FileTreeNodeComponent key={child.path} .../>):
\* a component is mounted for every node that has none yet
Mount(w, nodes) ==
    LET fresh == DirectoriesIn(nodes) \ DOMAIN w IN
    [q \in DOMAIN w \cup fresh |-> IF q \in DOMAIN w THEN w[q] ELSE Mounted(NodeAt(nodes, q))]

\* q is the path of a node below the node of path p
Below(p, q) == Len(q) > Len(p) + 1 /\ SubSeq(q, 1, Len(p) + 1) = p \o <<"/">>

\* the children of a component are rendered no longer: the components
\* below it are unmounted and their state is lost
Unmount(w, p) == [q \in {r \in DOMAIN w : ~Below(p, r)} |-> w[q]]

\* expandDirectory(path), which returns [] where it fails
ExpandDirectory(folders, d, path, order) ==
    IF ExpandTarget(folders, d, path) = NoHandle THEN <<>>
    ELSE BuildChildren(d, path, order)

WidgetFolder == [id |-> FolderId(0, 1), name |-> <<"a">>, handle |-> 1, addedAt |-> 0]

\* the page has loaded the tree of the folder and renders the children of
\* its root
WidgetInit ==
    /\ disk = WidgetDisk
    /\ trackedFolders = <<WidgetFolder>>
    /\ metadata = ProjectMetadata(trackedFolders)
    /\ idb = IdbOf(trackedFolders)
    /\ load = LoadRecord("done", metadata.items)
    /\ loading = FALSE
    /\ error = NoError
    /\ calls = [s \in Slots |-> IdleCall]
    /\ now = 1
    /\ removed = {}
    /\ listeners = <<>>
    /\ dispatch = NoDispatch
    /\ result = NoResult
    /\ \E order \in Orders(Children(disk, 1)) :
          widget = Mount(NoWidget, BuildTree(disk, WidgetFolder, order).children)

\* handleToggle of the component of path p, up to its await or to its end
WidgetToggle(p) ==
    /\ p \in DOMAIN widget
    /\ LET c == widget[p] IN
       IF ~c.expanded /\ Len(c.children) = 0
       THEN /\ c.loads < MaxLoads
            /\ widget' = [widget EXCEPT ![p] =
                              [c EXCEPT !.loading = TRUE, !.pending = @ + 1,
                                        !.loads = @ + 1,
                                        !.reloads = IF c.loaded > 0 THEN @ + 1 ELSE @]]
       ELSE widget' = IF c.expanded
                      THEN Unmount([widget EXCEPT ![p].expanded = FALSE], p)
                      ELSE Mount([widget EXCEPT ![p].expanded = TRUE], c.children)
    /\ UNCHANGED <<trackedFolders, loading, error, metadata, idb, calls, load,
                   now, removed, disk, result, listeners, dispatch>>

\* onExpand(node.path) resolves: setChildren, setExpanded(true),
\* setLoading(false)
WidgetLoaded(p) ==
    /\ p \in DOMAIN widget
    /\ widget[p].pending > 0
    /\ \E order \in Orders(Children(disk, ExpandTarget(trackedFolders, disk, p))) :
          LET loadedChildren == ExpandDirectory(trackedFolders, disk, p, order) IN
          widget' = Mount([widget EXCEPT ![p] =
                              [@ EXCEPT !.children = loadedChildren, !.expanded = TRUE,
                                        !.loading = FALSE, !.pending = @ - 1,
                                        !.loaded = @ + 1]],
                          loadedChildren)
    /\ UNCHANGED <<trackedFolders, loading, error, metadata, idb, calls, load,
                   now, removed, disk, result, listeners, dispatch>>

WidgetNext ==
    \/ \E p \in DOMAIN widget : WidgetToggle(p)
    \/ \E p \in DOMAIN widget : WidgetLoaded(p)

SpecWidget == WidgetInit /\ [][WidgetNext]_vars

\* C25: a sub-directory node produced by getFileTree or expandDirectory is
\* unexpanded with its children absent, hence distinguishable from a
\* directory known to have no children: the tree widget does not load again
\* a directory whose load has returned no children
C25_KnownEmptyNotReloaded ==
    \A p \in DOMAIN widget : widget[p].reloads = 0
====
